---- MODULE Spec2Model ----
(***************************************************************************)
(* Model of the ACE Prime pipeline core: PipelineStage, PipelineBuilder    *)
(* and the Pipeline orchestrator (src/src/core/pipeline), and of persona   *)
(* selection: IdentityResolver, OwnerValidator, PersonaSelector and        *)
(* PersonaLogger (src/src/core/identity, src/src/core/persona), and of the *)
(* prompt components: PromptValidator, PromptLoader and PromptBuilder      *)
(* (src/src/core/prompts).                                                 *)
(*                                                                         *)
(* Texts are strings; a text position is 1-based here, and a RegExp        *)
(* lastIndex keeps its JavaScript 0-based value.                           *)
(*                                                                         *)
(* Sequences are 1-based here; the operators that model JavaScript array   *)
(* searches (FindIndex) return the JavaScript 0-based index, -1 when the   *)
(* element is absent, so that comparisons read as they do in the source.   *)
(***************************************************************************)
EXTENDS Integers, Sequences, FiniteSets, TLC

(***************************************************************************)
(* Bounds                                                                  *)
(***************************************************************************)
\* longest stage array the builder is driven to
MaxStages == 3
\* longest dependency array of a stage
MaxDeps == 1
\* longest stage array of the pipeline two calls run on at the same time
MaxConcurrentStages == 2
\* most entries the audit log is followed to
MaxAudit == 1
\* the largest number of pieces a validated text is made of
MaxTokens == 3
\* longest stage array of the pipeline that is run against the clock
MaxTimedStages == 2
\* the clock of a run is followed up to this many milliseconds
MaxElapsed == 2

\* stage names the callers of SpecBuild choose from
Names == {"A", "B", "C"}
\* stage names used by the callers of Spec: the k-th addStage call adds the
\* stage named RunNames[k]
RunNames == <<"A", "B", "C", "D", "E">>
\* the execute calls that are followed: each may be in progress while the
\* other is
RunIds == {"r1", "r2"}
\* the execute call followed by the specifications with one call at a time
SoloRuns == {"r1"}
\* the inbound message record handed to execute
Message == <<"msg">>
\* the message record each followed call is made with: two calls, two messages
InboundMessage(r) == IF r \in SoloRuns THEN Message ELSE <<"msg2">>

VARIABLES
    bStages,      \* PipelineBuilder.stages: the array of stages added so far
    bCritical,    \* PipelineBuilder.criticalStages (read only through new Set)
    bConfig,      \* PipelineBuilder.config: Partial<PipelineConfig>
    pipeline,     \* the Pipeline instance build() returned, if any
    addCalls,     \* the stages handed to addStage so far, in call order
    call,         \* the last synchronous call made by the caller and its outcome
    runs,         \* one record per execute call: its context and position
    auditLog,     \* the entries PersonaLogger has written to its Logger, in order
    reLastIndex,  \* lastIndex of each RegExp of PromptValidator.FORBIDDEN_PATTERNS
    disk,         \* the prompts directory: the content of each prompt file, if any
    loader,       \* the PromptLoader instance: its config, cache and validated set
    lastReads,    \* the prompt files read from disk by the last call, in order
    handler,      \* the MessageHandler instance
    handling,     \* the promise of handleMessage for each message
    trace,        \* the calls the handler has made on its logger and on
                  \* message.reply, and its reads of the availability guard
    proc          \* the process running main()

\* the variables of the prompt components
promptVars == <<reLastIndex, disk, loader, lastReads>>

\* the variables of the bot: the message handler and the process
botVars == <<handler, handling, trace, proc>>

vars == <<bStages, bCritical, bConfig, pipeline, addCalls, call, runs, auditLog,
          promptVars, botVars>>

(***************************************************************************)
(* Stages                                                                  *)
(***************************************************************************)
\* PipelineStage: a name and the array of the names it depends on
Stage(name, deps) == [stageName |-> name, dependencies |-> deps]

\* all arrays over S of length at most n
SeqsUpTo(S, n) == UNION {[1..k -> S] : k \in 0..n}

\* the stages a caller may hand to addStage in SpecBuild
StageUniverse == {Stage(n, d) : n \in Names, d \in SeqsUpTo(Names, MaxDeps)}

\* the stage a caller may hand to the k-th addStage call in Spec: it is named
\* RunNames[k] and depends on earlier stages (at most MaxDeps of them, in
\* list order), or on the stage that would come next
RunStageChoices(k) ==
    LET earlier == {d \in SeqsUpTo(1..(k - 1), MaxDeps) :
                        \A i \in 1..(Len(d) - 1) : d[i] < d[i + 1]}
    IN  {Stage(RunNames[k], [i \in 1..Len(d) |-> RunNames[d[i]]]) : d \in earlier}
            \cup {Stage(RunNames[k], <<RunNames[k + 1]>>)}

\* this.stages.map(s => s.stageName)
StageNameSeq(stages) == [i \in 1..Len(stages) |-> stages[i].stageName]

\* new Set(this.stages.map(s => s.stageName))
StageNameSet(stages) == {stages[i].stageName : i \in 1..Len(stages)}

\* Array.prototype.findIndex(s => s.stageName === name): 0-based, -1 if absent
FindIndex(stages, name) ==
    LET hits == {i \in 1..Len(stages) : stages[i].stageName = name}
    IN  IF hits = {} THEN -1
        ELSE (CHOOSE i \in hits : \A j \in hits : i <= j) - 1

(***************************************************************************)
(* The run configuration (Pipeline.ts)                                     *)
(***************************************************************************)
\* PipelineConfig.timeoutMs left undefined
NoTimeout == -1

\* the timeouts, in milliseconds, a builder is given
Timeouts == {1}

(***************************************************************************)
(* Errors thrown at construction time                                      *)
(***************************************************************************)
Err(kind, stage, dep) == [kind |-> kind, stage |-> stage, dep |-> dep]
NoError == Err("none", "", "")

(***************************************************************************)
(* Prompt files and the loader's state (PromptBuilder.ts, PromptLoader)    *)
(***************************************************************************)
\* PromptType: the file name of each known prompt, in enum order
BUTLER_SYSTEM == "butler.system.md"
SUPERVISOR_SYSTEM == "supervisor.system.md"
DEVELOPER == "developer.md"
PromptTypeSeq == <<BUTLER_SYSTEM, SUPERVISOR_SYSTEM, DEVELOPER>>
PromptTypes == {PromptTypeSeq[i] : i \in 1..Len(PromptTypeSeq)}

\* a prompt file that does not exist
NoFile == [exists |-> FALSE, readable |-> FALSE, content |-> ""]
\* a prompt file with the given content
File(content) == [exists |-> TRUE, readable |-> TRUE, content |-> content]
\* a prompt file that exists and cannot be read
Unreadable == [exists |-> TRUE, readable |-> FALSE, content |-> ""]

\* Map.get on a type without an entry
Undefined == [defined |-> FALSE, text |-> ""]
\* a cached text
Cached(text) == [defined |-> TRUE, text |-> text]

\* no PromptLoader instance
NoLoader ==
    [constructed |-> FALSE, enableHotReload |-> FALSE,
     cache |-> [t \in PromptTypes |-> Undefined], validated |-> {}]

(***************************************************************************)
(* The bot's state (MessageHandler.ts, index.ts)                           *)
(***************************************************************************)
\* no MessageHandler instance
NoHandler == [constructed |-> FALSE, isOpenAIAvailable |-> FALSE]

\* the ids of the messages the bot receives
MessageIds == {"m1", "m2"}

\* no message
NoMessage ==
    [id |-> "", channelId |-> "",
     author |-> [id |-> "", username |-> "", discriminator |-> "", bot |-> FALSE],
     member |-> [present |-> FALSE, displayName |-> ""]]

\* a message handleMessage has not been called on: promise is the state of
\* the promise handleMessage returned, reply the state of message.reply
NotHandled == [promise |-> "none", reply |-> "none", message |-> NoMessage]

\* an environment variable that is not set, and one set to a value
Unset == [set |-> FALSE, value |-> ""]
Set(value) == [set |-> TRUE, value |-> value]

\* the process before main() is called: discordToken is what main has read
\* from DISCORD_TOKEN, console what it has written with console.error,
\* loginToken the arguments of its calls of client.login
NotStarted ==
    [pc |-> "notStarted", exitCode |-> -1, discordToken |-> Unset,
     console |-> <<>>, clientCreated |-> FALSE, handlerRegistered |-> FALSE,
     loginToken |-> <<>>]

(***************************************************************************)
(* Pipeline construction (Pipeline.ts)                                     *)
(***************************************************************************)
\* ValidateDeps with the order test weakened to depIndex > stageIndex: a
\* stage that depends on itself is accepted
RECURSIVE ValidateDeps_AllowSelf(_, _, _)
ValidateDeps_AllowSelf(stages, i, j) ==
    IF j > Len(stages[i].dependencies) THEN NoError
    ELSE
        LET stage == stages[i]
            dep == stage.dependencies[j]
            depIndex == FindIndex(stages, dep)
            stageIndex == FindIndex(stages, stage.stageName)
        IN  IF dep \notin StageNameSet(stages)
                THEN Err("UnknownDependency", stage.stageName, dep)
            ELSE IF depIndex > stageIndex
                THEN Err("DependencyOrderViolation", stage.stageName, dep)
            ELSE ValidateDeps_AllowSelf(stages, i, j + 1)

\* ValidateDeps without the stageNames.has(dep) test: only positions compared
RECURSIVE ValidateDeps_NoUnknownCheck(_, _, _)
ValidateDeps_NoUnknownCheck(stages, i, j) ==
    IF j > Len(stages[i].dependencies) THEN NoError
    ELSE
        LET stage == stages[i]
            dep == stage.dependencies[j]
            depIndex == FindIndex(stages, dep)
            stageIndex == FindIndex(stages, stage.stageName)
        IN  IF depIndex >= stageIndex
                THEN Err("DependencyOrderViolation", stage.stageName, dep)
            ELSE ValidateDeps_NoUnknownCheck(stages, i, j + 1)

\* the inner loop of validatePipeline: the dependencies of stage i from the
\* j-th on, in array order; the first violation is the one thrown
RECURSIVE ValidateDeps(_, _, _)
ValidateDeps(stages, i, j) ==
    IF j > Len(stages[i].dependencies) THEN NoError
    ELSE
        LET stage == stages[i]
            dep == stage.dependencies[j]
            depIndex == FindIndex(stages, dep)
            stageIndex == FindIndex(stages, stage.stageName)
        IN  IF dep \notin StageNameSet(stages)
                THEN Err("UnknownDependency", stage.stageName, dep)
            ELSE IF depIndex >= stageIndex
                THEN Err("DependencyOrderViolation", stage.stageName, dep)
            ELSE ValidateDeps(stages, i, j + 1)

\* the outer loop of validatePipeline: stage i and the stages after it
RECURSIVE ValidateFrom(_, _)
ValidateFrom(stages, i) ==
    IF i > Len(stages) THEN NoError
    ELSE
        LET stage == stages[i]
            duplicates == {k \in 1..Len(stages) : stages[k].stageName = stage.stageName}
        IN  IF Cardinality(duplicates) > 1
                THEN Err("DuplicateStageName", stage.stageName, "")
            ELSE
                LET e == ValidateDeps(stages, i, 1)
                IN  IF e # NoError THEN e ELSE ValidateFrom(stages, i + 1)

\* Pipeline.validatePipeline: the error it throws, NoError when it returns
validatePipeline(stages) ==
    IF Len(stages) = 0 THEN Err("EmptyPipeline", "", "")
    ELSE ValidateFrom(stages, 1)

\* no Pipeline instance
NoPipeline ==
    [built |-> FALSE, continueOnError |-> FALSE, timeoutMs |-> NoTimeout,
     criticalStages |-> {}]

\* the Pipeline constructor: the instance it leaves when validatePipeline
\* returns. this.stages keeps the caller's array itself (see pStages); the
\* critical names are copied into a Set; config is the object passed in.
NewPipeline(config, criticalStages) ==
    [built |-> TRUE,
     continueOnError |-> config.continueOnError,
     timeoutMs |-> config.timeoutMs,
     criticalStages |-> criticalStages]

\* Pipeline.stages: `this.stages = stages` stores the reference it is given,
\* and PipelineBuilder.build passes the builder's own array, so the
\* pipeline's stage list is the builder's array, whatever is pushed to it
pStages == bStages

\* Pipeline.getStageNames
getStageNames == StageNameSeq(pStages)

\* Pipeline.hasStage
hasStage(stageName) == \E i \in 1..Len(pStages) : pStages[i].stageName = stageName

\* validatePersonaOrdering with the order test weakened to personaIndex >
\* promptIndex: the same stage given twice passes
validatePersonaOrdering_AllowEqual(personaStage, promptStage) ==
    LET personaIndex == FindIndex(pStages, personaStage)
        promptIndex == FindIndex(pStages, promptStage)
    IN  IF personaIndex = -1 THEN Err("PersonaStageMissing", personaStage, "")
        ELSE IF promptIndex = -1 THEN Err("PromptStageMissing", promptStage, "")
        ELSE IF personaIndex > promptIndex
            THEN Err("PersonaOrderViolation", personaStage, promptStage)
        ELSE NoError

\* Pipeline.validatePersonaOrdering: the error it throws, NoError when it returns
validatePersonaOrdering(personaStage, promptStage) ==
    LET personaIndex == FindIndex(pStages, personaStage)
        promptIndex == FindIndex(pStages, promptStage)
    IN  IF personaIndex = -1 THEN Err("PersonaStageMissing", personaStage, "")
        ELSE IF promptIndex = -1 THEN Err("PromptStageMissing", promptStage, "")
        ELSE IF personaIndex >= promptIndex
            THEN Err("PersonaOrderViolation", personaStage, promptStage)
        ELSE NoError

(***************************************************************************)
(* PipelineBuilder (PipelineStage.ts, second half)                         *)
(***************************************************************************)
\* a finished synchronous call: its name, arguments, thrown error, return value
CallRec(op, args, error, ret) == [op |-> op, args |-> args, error |-> error, ret |-> ret]
NoCall == CallRec("none", <<>>, NoError, <<>>)

\* the configuration object build passes to the constructor
FinalConfig ==
    [continueOnError |->
        IF bConfig.continueOnError = "unset" THEN FALSE
        ELSE bConfig.continueOnError = "true",
     timeoutMs |-> bConfig.timeoutMs]

\* build constructing the Pipeline before it looks at the logger
BuildError_ValidateFirst ==
    IF validatePipeline(bStages) # NoError THEN validatePipeline(bStages)
    ELSE IF ~bConfig.logger THEN Err("MissingLogger", "", "")
    ELSE NoError

\* PipelineBuilder.build: the error it throws, NoError when it returns
BuildError ==
    IF ~bConfig.logger THEN Err("MissingLogger", "", "")
    ELSE validatePipeline(bStages)

\* an execute call that has not been made. A run record holds the call's
\* PipelineContext (message, stageResults, errors, currentStage), its locals
\* (previousOutput, idx: how many stages the for-of iterator has yielded),
\* the error Stage.execute has thrown and no catch block has taken yet
\* (thrown),
\* where it is suspended (pc), what it returned (outcome, success, output),
\* and what happened in it so far: invoked lists the executeStage calls,
\* settled counts the ones that have returned or thrown, failed lists the
\* Stage.execute calls that were rejected; elapsed is Date.now() - startTime;
\* caught is the error the inner catch block of execute received last.
IdleRun ==
    [pc |-> "idle", idx |-> 0, message |-> Message,
     stageResults |-> <<>>, errors |-> <<>>,
     currentStage |-> "", previousOutput |-> Message, thrown |-> NoError,
     caught |-> NoError,
     invoked |-> <<>>, settled |-> 0, failed |-> <<>>,
     outcome |-> "none", success |-> FALSE, output |-> Message,
     elapsed |-> 0, executionTimeMs |-> 0]

Init ==
    /\ bStages = <<>>
    /\ bCritical = {}
    /\ bConfig = [logger |-> FALSE, continueOnError |-> "unset",
                  timeoutMs |-> NoTimeout]
    /\ pipeline = NoPipeline
    /\ addCalls = <<>>
    /\ call = NoCall
    /\ runs = [r \in RunIds |-> IdleRun]
    /\ auditLog = <<>>
    /\ reLastIndex = [k \in 1..2 |-> 0]
    /\ disk = [t \in PromptTypes |-> NoFile]
    /\ loader = NoLoader
    /\ lastReads = <<>>
    /\ handler = NoHandler
    /\ handling = [id \in MessageIds |-> NotHandled]
    /\ trace = <<>>
    /\ proc = NotStarted

\* addStage with unshift in place of push: the newest stage goes first
AddStage_Unshift(stage) ==
    /\ Len(bStages) < MaxStages
    /\ bStages' = <<stage>> \o bStages
    /\ addCalls' = Append(addCalls, stage)
    /\ call' = CallRec("addStage", <<>>, NoError, <<>>)
    /\ UNCHANGED <<bCritical, bConfig, pipeline, runs, auditLog, promptVars, botVars>>

\* PipelineBuilder.addStage
AddStage(stage) ==
    /\ Len(bStages) < MaxStages
    /\ bStages' = Append(bStages, stage)
    /\ addCalls' = Append(addCalls, stage)
    /\ call' = CallRec("addStage", <<>>, NoError, <<>>)
    /\ UNCHANGED <<bCritical, bConfig, pipeline, runs, auditLog, promptVars, botVars>>

\* PipelineBuilder.markCritical
MarkCritical(stageName) ==
    /\ bCritical' = bCritical \cup {stageName}
    /\ call' = CallRec("markCritical", <<>>, NoError, <<>>)
    /\ UNCHANGED <<bStages, bConfig, pipeline, addCalls, runs, auditLog, promptVars, botVars>>

\* PipelineBuilder.withLogger
WithLogger ==
    /\ bConfig' = [bConfig EXCEPT !.logger = TRUE]
    /\ call' = CallRec("withLogger", <<>>, NoError, <<>>)
    /\ UNCHANGED <<bStages, bCritical, pipeline, addCalls, runs, auditLog, promptVars, botVars>>

\* PipelineBuilder.continueOnError
ContinueOnError(continueOnError) ==
    /\ bConfig' = [bConfig EXCEPT
                     !.continueOnError = IF continueOnError THEN "true" ELSE "false"]
    /\ call' = CallRec("continueOnError", <<>>, NoError, <<>>)
    /\ UNCHANGED <<bStages, bCritical, pipeline, addCalls, runs, auditLog, promptVars, botVars>>

\* p = builder.build(): the caller holds no pipeline yet; when build throws
\* nothing is assigned
Build ==
    /\ ~pipeline.built
    /\ call' = CallRec("build", <<>>, BuildError, <<>>)
    /\ pipeline' = IF BuildError = NoError
                      THEN NewPipeline(FinalConfig, bCritical)
                      ELSE pipeline
    /\ UNCHANGED <<bStages, bCritical, bConfig, addCalls, runs, auditLog, promptVars, botVars>>

\* p.getStageNames()
GetStageNames ==
    /\ pipeline.built
    /\ call' = CallRec("getStageNames", <<>>, NoError, getStageNames)
    /\ UNCHANGED <<bStages, bCritical, bConfig, pipeline, addCalls, runs, auditLog, promptVars, botVars>>

\* p.validatePersonaOrdering(personaStage, promptStage)
ValidatePersonaOrdering(personaStage, promptStage) ==
    /\ pipeline.built
    /\ call' = CallRec("validatePersonaOrdering", <<personaStage, promptStage>>,
                       validatePersonaOrdering(personaStage, promptStage), <<>>)
    /\ UNCHANGED <<bStages, bCritical, bConfig, pipeline, addCalls, runs, auditLog, promptVars, botVars>>

\* the builder and the pipeline's synchronous operations, driven with every
\* stage of StageUniverse, up to as many stages as there are names
NextBuild ==
    \/ Len(bStages) < Cardinality(Names) /\ \E stage \in StageUniverse : AddStage(stage)
    \/ WithLogger
    \/ Build
    \/ GetStageNames
    \/ \E personaStage \in Names, promptStage \in Names :
            ValidatePersonaOrdering(personaStage, promptStage)

SpecBuild == Init /\ [][NextBuild]_vars

(***************************************************************************)
(* Pipeline.execute and PipelineStage.execute                              *)
(***************************************************************************)
\* Map.prototype.has on the stageResults map (kept in insertion order)
MapHas(map, key) == \E i \in 1..Len(map) : map[i].stageName = key

\* Map.prototype.set: a present key keeps its place and takes the new value
MapSet(map, key, value) ==
    IF MapHas(map, key)
        THEN [i \in 1..Len(map) |-> IF map[i].stageName = key THEN value ELSE map[i]]
        ELSE Append(map, value)

\* Array.from(map.keys())
MapKeys(map) == [i \in 1..Len(map) |-> map[i].stageName]

\* the abstract executeStage of a concrete stage, when it returns: the data
\* it produces is the input it was given, marked by the stage
ExecuteStage(stage, input) == Append(input, stage.stageName)

\* the error a failing executeStage throws
StageError(stage) == <<"error", stage.stageName>>

\* validateDependencies with an empty loop body: it never throws
DependencyMissing_NoCheck(stage, stageResults) == FALSE

\* PipelineStage.validateDependencies: TRUE when it throws
DependencyMissing(stage, stageResults) ==
    \E k \in 1..Len(stage.dependencies) : ~MapHas(stageResults, stage.dependencies[k])

\* Map.prototype.get for a key the map has
MapGet(map, key) == map[CHOOSE i \in 1..Len(map) : map[i].stageName = key]

\* getStageResult that hands out the data of the entry stored last, whatever
\* the name asked for
getStageResult_LastEntry(stage, context, stageName) ==
    IF Len(context.stageResults) = 0
    THEN [error |-> Err("StageResultNotFound", stage.stageName, stageName),
          ret |-> <<>>, context |-> context]
    ELSE [error |-> NoError,
          ret |-> context.stageResults[Len(context.stageResults)].data,
          context |-> context]

\* PipelineStage.getStageResult called by stage: the error it throws or the
\* data it returns, and the context it leaves
getStageResult(stage, context, stageName) ==
    IF ~MapHas(context.stageResults, stageName)
    THEN [error |-> Err("StageResultNotFound", stage.stageName, stageName),
          ret |-> <<>>, context |-> context]
    ELSE [error |-> NoError,
          ret |-> MapGet(context.stageResults, stageName).data,
          context |-> context]

\* createContext handing out one Map kept across calls instead of a new Map:
\* the call starts from the entries another call has stored
CreateContext_SharedMap(message) ==
    [IdleRun EXCEPT !.pc = "loop", !.message = message, !.previousOutput = message,
                    !.stageResults = runs[CHOOSE r \in SoloRuns : TRUE].stageResults]

\* Pipeline.createContext and the locals of execute
CreateContext(message) ==
    [IdleRun EXCEPT !.pc = "loop", !.message = message, !.previousOutput = message]

\* the return statement after the loop
ReturnCompleted(run) ==
    [run EXCEPT !.pc = "done", !.outcome = "returned",
                !.output = run.previousOutput,
                !.executionTimeMs = run.elapsed,
                !.success = (Len(run.errors) = 0)]

\* the return statement of the outer catch block
ReturnFailed(run) ==
    [run EXCEPT !.pc = "done", !.outcome = "returned",
                !.output = run.previousOutput,
                !.executionTimeMs = run.elapsed,
                !.success = FALSE]

\* the error validateDependencies throws: it names the stage, the first
\* dependency (in array order) without a result, and the keys of stageResults
MissingDependency(stage, stageResults) ==
    LET missing == {k \in 1..Len(stage.dependencies) :
                        ~MapHas(stageResults, stage.dependencies[k])}
        first == CHOOSE k \in missing : \A j \in missing : k <= j
    IN  [kind |-> "MissingDependency", stage |-> stage.stageName,
         dep |-> stage.dependencies[first], completed |-> MapKeys(stageResults)]

\* Stage.execute without the call of validateDependencies
StageExecuteBegin_NoValidation(run, stage) ==
    [run EXCEPT !.pc = "inflight",
                !.currentStage = stage.stageName,
                !.invoked = Append(@, [index |-> run.idx, stage |-> stage.stageName,
                                       input |-> run.previousOutput])]

\* PipelineStage.execute up to its first suspension: validateDependencies
\* throws (the call is rejected), or currentStage is set and executeStage is
\* invoked with the input
StageExecuteBegin(run, stage) ==
    IF DependencyMissing(stage, run.stageResults)
        THEN [run EXCEPT !.pc = "rejected",
                         !.thrown = MissingDependency(stage, run.stageResults),
                         !.failed = Append(@, [index |-> run.idx, stage |-> stage.stageName,
                                               reason |-> "dependency"])]
        ELSE [run EXCEPT !.pc = "inflight",
                         !.currentStage = stage.stageName,
                         !.invoked = Append(@, [index |-> run.idx, stage |-> stage.stageName,
                                                input |-> run.previousOutput])]

\* the error Stage.execute throws from its catch block: it names the stage
\* and keeps the error it caught as its cause
StageExecutionFailed(stage, cause) ==
    [kind |-> "StageExecutionFailed", stage |-> stage.stageName, cause |-> cause]

\* the catch block of Stage.execute throwing without recording the error
StageExecuteCatch_NoPush(run, stage, error) ==
    [run EXCEPT !.settled = @ + 1,
                !.failed = Append(@, [index |-> run.idx, stage |-> stage.stageName,
                                      reason |-> "threw"]),
                !.thrown = StageExecutionFailed(stage, error)]

\* the catch block of Stage.execute storing a result for the failed stage
StageExecuteCatch_StoresResult(run, stage, error) ==
    [run EXCEPT !.settled = @ + 1,
                !.errors = Append(@, [stage |-> stage.stageName, error |-> error]),
                !.stageResults = Append(@, [stageName |-> stage.stageName,
                                            data |-> error]),
                !.failed = Append(@, [index |-> run.idx, stage |-> stage.stageName,
                                      reason |-> "threw"]),
                !.thrown = StageExecutionFailed(stage, error)]

\* the catch block of Stage.execute: executeStage has thrown error; the
\* entry {stage, error} is pushed to context.errors and a new error is thrown
StageExecuteCatch(run, stage, error) ==
    [run EXCEPT !.settled = @ + 1,
                !.errors = Append(@, [stage |-> stage.stageName, error |-> error]),
                !.failed = Append(@, [index |-> run.idx, stage |-> stage.stageName,
                                      reason |-> "threw"]),
                !.thrown = StageExecutionFailed(stage, error)]

\* the try block of Stage.execute once executeStage has returned: the
\* StageResult it returns
StageExecuteReturn(stage, input) ==
    [stageName |-> stage.stageName, data |-> ExecuteStage(stage, input)]

\* catch (error) of the inner try block of Pipeline.execute: the error
\* Stage.execute has thrown is taken
Catch(run) == [run EXCEPT !.caught = run.thrown, !.thrown = NoError]

\* the loop walking this.stages from its last element to its first
Advance_Reverse(run) ==
    IF run.idx >= Len(pStages) THEN ReturnCompleted(run)
    ELSE StageExecuteBegin([run EXCEPT !.idx = @ + 1], pStages[Len(pStages) - run.idx])

\* the head of the for-of loop over this.stages: the iterator yields the next
\* stage of the array as it is now, or the loop ends and execute returns
Advance(run) ==
    IF run.idx >= Len(pStages) THEN ReturnCompleted(run)
    ELSE StageExecuteBegin([run EXCEPT !.idx = @ + 1], pStages[run.idx + 1])

\* the catch block retrying the failed stage instead of moving on
HandleStageFailure_Retry(run, stage) ==
    LET isCritical == stage.stageName \in pipeline.criticalStages
    IN  IF isCritical \/ ~pipeline.continueOnError
            THEN ReturnFailed(run)
            ELSE Advance([run EXCEPT !.idx = @ - 1])

\* the catch block without the isCritical test
HandleStageFailure_IgnoreCritical(run, stage) ==
    IF ~pipeline.continueOnError
        THEN ReturnFailed(run)
        ELSE Advance(run)

\* the inner catch block of Pipeline.execute for the stage of this iteration
HandleStageFailure(run, stage) ==
    LET isCritical == stage.stageName \in pipeline.criticalStages
    IN  IF isCritical \/ ~pipeline.continueOnError
            THEN ReturnFailed(run)
            ELSE Advance(run)

\* p.execute(message): runs until the first stage suspends
Execute(r) ==
    /\ pipeline.built
    /\ runs[r].pc \in {"idle", "done"}
    /\ runs' = [runs EXCEPT ![r] = Advance(CreateContext(InboundMessage(r)))]
    /\ UNCHANGED <<bStages, bCritical, bConfig, pipeline, addCalls, call, auditLog, promptVars, botVars>>

\* the executeStage in flight returns: Stage.execute resolves with the
\* StageResult, the orchestrator stores it and goes on to the next stage
StageResolved(r) ==
    LET run == runs[r]
        stage == pStages[run.idx]
        result == StageExecuteReturn(stage, run.invoked[Len(run.invoked)].input)
    IN  /\ run.pc = "inflight"
        /\ runs' = [runs EXCEPT ![r] =
                Advance([run EXCEPT !.settled = @ + 1,
                                    !.stageResults = MapSet(@, stage.stageName, result),
                                    !.previousOutput = result.data])]
        /\ UNCHANGED <<bStages, bCritical, bConfig, pipeline, addCalls, call, auditLog, promptVars, botVars>>

\* the executeStage in flight throws: Stage.execute records the error in
\* context.errors and rejects, the orchestrator's catch block takes over
StageThrew(r) ==
    LET run == runs[r]
        stage == pStages[run.idx]
    IN  /\ run.pc = "inflight"
        /\ runs' = [runs EXCEPT ![r] =
                HandleStageFailure(
                    Catch(StageExecuteCatch(run, stage, StageError(stage))), stage)]
        /\ UNCHANGED <<bStages, bCritical, bConfig, pipeline, addCalls, call, auditLog, promptVars, botVars>>

\* the rejection of a Stage.execute whose validateDependencies threw reaches
\* the orchestrator's catch block
DependencyRejected(r) ==
    LET run == runs[r]
    IN  /\ run.pc = "rejected"
        /\ runs' = [runs EXCEPT ![r] =
                HandleStageFailure(Catch(run), pStages[run.idx])]
        /\ UNCHANGED <<bStages, bCritical, bConfig, pipeline, addCalls, call, auditLog, promptVars, botVars>>

\* the executeStage in flight asks for the result of the stage called
\* stageName
GetStageResult(r, stageName) ==
    /\ runs[r].pc = "inflight"
    /\ \E res \in {getStageResult(pStages[runs[r].idx], runs[r], stageName)} :
           /\ runs' = [runs EXCEPT ![r] = res.context]
           /\ call' = CallRec("getStageResult", <<r, stageName>>, res.error, res.ret)
    /\ UNCHANGED <<bStages, bCritical, bConfig, pipeline, addCalls, auditLog,
                   promptVars, botVars>>

\* a caller that configures the builder, marks stages it has added as
\* critical, builds once, may go on adding stages to the builder, and runs
\* the pipeline
Next ==
    \/ Len(bStages) < MaxStages /\ \E stage \in RunStageChoices(Len(bStages) + 1) :
            AddStage(stage)
    \/ ~pipeline.built /\ \E i \in 1..Len(bStages) :
            MarkCritical(bStages[i].stageName)
    \/ ~pipeline.built /\ WithLogger
    \/ ~pipeline.built /\ \E continueOnError \in BOOLEAN : ContinueOnError(continueOnError)
    \/ Build
    \/ \E r \in SoloRuns : Execute(r)
    \/ \E r \in SoloRuns : StageResolved(r)
    \/ \E r \in SoloRuns : StageThrew(r)
    \/ \E r \in SoloRuns : DependencyRejected(r)

Spec == Init /\ [][Next]_vars

\* the names a stage asks getStageResult for: those of the stages the
\* caller may add, and one no stage has
AskedNames == {RunNames[i] : i \in 1..(MaxStages + 1)}

\* a caller that adds stages and a logger, builds once, may go on adding
\* stages, and runs the pipeline with stages whose executeStage reads
\* earlier results
NextAccess ==
    \/ Len(bStages) < MaxStages /\ \E stage \in RunStageChoices(Len(bStages) + 1) :
            AddStage(stage)
    \/ ~pipeline.built /\ WithLogger
    \/ Build
    \/ \E r \in SoloRuns : Execute(r)
    \/ \E r \in SoloRuns : StageResolved(r)
    \/ \E r \in SoloRuns : StageThrew(r)
    \/ \E r \in SoloRuns : DependencyRejected(r)
    \/ \E r \in SoloRuns, stageName \in AskedNames : GetStageResult(r, stageName)

SpecAccess == Init /\ [][NextAccess]_vars

\* builder.withTimeout(timeoutMs)
WithTimeout(timeoutMs) ==
    /\ bConfig' = [bConfig EXCEPT !.timeoutMs = timeoutMs]
    /\ call' = CallRec("withTimeout", <<timeoutMs>>, NoError, <<>>)
    /\ UNCHANGED <<bStages, bCritical, pipeline, addCalls, runs, auditLog,
                   promptVars, botVars>>

\* a millisecond passes while the call waits for its stage
ClockTick(r) ==
    /\ runs[r].pc \in {"inflight", "rejected"}
    /\ runs[r].elapsed < MaxElapsed
    /\ runs' = [runs EXCEPT ![r].elapsed = @ + 1]
    /\ UNCHANGED <<bStages, bCritical, bConfig, pipeline, addCalls, call,
                   auditLog, promptVars, botVars>>

\* a caller that may give the builder a timeout, builds once, leaves the
\* builder alone and runs the pipeline while time passes
NextTimeout ==
    \/ ~pipeline.built /\ Len(bStages) < MaxTimedStages
            /\ \E stage \in RunStageChoices(Len(bStages) + 1) : AddStage(stage)
    \/ ~pipeline.built /\ WithLogger
    \/ ~pipeline.built /\ \E timeoutMs \in Timeouts : WithTimeout(timeoutMs)
    \/ Build
    \/ \E r \in SoloRuns : Execute(r)
    \/ \E r \in SoloRuns : StageResolved(r)
    \/ \E r \in SoloRuns : StageThrew(r)
    \/ \E r \in SoloRuns : ClockTick(r)

SpecTimeout == Init /\ [][NextTimeout]_vars

\* the same caller when it leaves the builder alone once it has built
NextSealed ==
    \/ ~pipeline.built /\ Len(bStages) < MaxStages
            /\ \E stage \in RunStageChoices(Len(bStages) + 1) : AddStage(stage)
    \/ ~pipeline.built /\ \E i \in 1..Len(bStages) :
            MarkCritical(bStages[i].stageName)
    \/ ~pipeline.built /\ WithLogger
    \/ ~pipeline.built /\ \E continueOnError \in BOOLEAN : ContinueOnError(continueOnError)
    \/ Build
    \/ \E r \in SoloRuns : Execute(r)
    \/ \E r \in SoloRuns : StageResolved(r)
    \/ \E r \in SoloRuns : StageThrew(r)
    \/ \E r \in SoloRuns : DependencyRejected(r)

SpecSealed == Init /\ [][NextSealed]_vars

\* the stage names a caller of SpecOrdering passes to validatePersonaOrdering
OrderingNames == {RunNames[k] : k \in 1..MaxStages}

\* a caller that marks no stage critical, builds once, asserts a
\* persona/prompt ordering on the pipeline before it runs it for the first
\* time, may go on adding stages to the builder, and runs the pipeline
NextOrdering ==
    \/ Len(bStages) < MaxStages /\ \E stage \in RunStageChoices(Len(bStages) + 1) :
            AddStage(stage)
    \/ ~pipeline.built /\ WithLogger
    \/ ~pipeline.built /\ \E continueOnError \in BOOLEAN : ContinueOnError(continueOnError)
    \/ Build
    \/ /\ \A r \in SoloRuns : runs[r].pc = "idle"
       /\ \E personaStage \in OrderingNames, promptStage \in OrderingNames :
            ValidatePersonaOrdering(personaStage, promptStage)
    \/ \E r \in SoloRuns : Execute(r)
    \/ \E r \in SoloRuns : StageResolved(r)
    \/ \E r \in SoloRuns : StageThrew(r)
    \/ \E r \in SoloRuns : DependencyRejected(r)

SpecOrdering == Init /\ [][NextOrdering]_vars

\* a caller that builds a pipeline, leaves the builder alone and makes two
\* execute calls whose stages settle in any order
NextConcurrent ==
    \/ ~pipeline.built /\ Len(bStages) < MaxConcurrentStages
            /\ \E stage \in RunStageChoices(Len(bStages) + 1) : AddStage(stage)
    \/ ~pipeline.built /\ \E i \in 1..Len(bStages) :
            MarkCritical(bStages[i].stageName)
    \/ ~pipeline.built /\ WithLogger
    \/ ~pipeline.built /\ \E continueOnError \in BOOLEAN : ContinueOnError(continueOnError)
    \/ Build
    \/ \E r \in RunIds : Execute(r)
    \/ \E r \in RunIds : StageResolved(r)
    \/ \E r \in RunIds : StageThrew(r)
    \/ \E r \in RunIds : DependencyRejected(r)

SpecConcurrent == Init /\ [][NextConcurrent]_vars

\* the caller of Spec when the stages it hands to the builder after build
\* may also be stages it has handed over before
NextRepeat ==
    \/ Next
    \/ /\ pipeline.built
       /\ Len(bStages) < MaxStages
       /\ \E i \in 1..Len(bStages) : AddStage(bStages[i])

SpecRepeat == Init /\ [][NextRepeat]_vars

(***************************************************************************)
(* Persona selection (constants.ts, persona.types.ts, IdentityResolver.ts, *)
(* OwnerValidator, PersonaSelector.ts, PersonaLogger)                      *)
(***************************************************************************)
\* SYSTEM_CONSTANTS
OWNER_ID == "618512174620475394"
OWNER_NAME == "ACE"

\* PersonaType
BUTLER == "BUTLER"
SUPERVISOR == "SUPERVISOR"

\* the author ids of the messages tried: the owner's, the empty string, the
\* owner's without its last digit, the owner's with one more digit, and the
\* owner's with its last digit changed
AuthorIds ==
    {OWNER_ID, "", "61851217462047539", "6185121746204753940", "618512174620475395"}

\* the author usernames of the messages tried: the owner's name and another
Usernames == {OWNER_NAME, "guest"}

\* message.member of the messages tried: absent, or a member whose display
\* name is the owner's name
NoMember == [present |-> FALSE, displayName |-> ""]
Members == {NoMember, [present |-> TRUE, displayName |-> OWNER_NAME]}

\* the discord.js Message records handed to selectPersona
Messages ==
    {[id |-> "m1", channelId |-> "c1",
      author |-> [id |-> i, username |-> u, discriminator |-> "0", bot |-> b],
      member |-> m] :
        i \in AuthorIds, u \in Usernames, b \in BOOLEAN, m \in Members}

\* IdentityResolver.resolveIdentity
resolveIdentity(message) ==
    [id |-> message.author.id,
     username |-> message.author.username,
     discriminator |-> message.author.discriminator,
     displayName |-> IF message.member.present THEN message.member.displayName
                     ELSE message.author.username,
     isBot |-> message.author.bot]

\* the UserIdentity records handed to isOwner
Identities == {resolveIdentity(message) : message \in Messages}

\* isValidUser without the test of the id's length
isValidUser_BotOnly(identity) == ~identity.isBot

\* IdentityResolver.isValidUser
isValidUser(identity) == ~identity.isBot /\ Len(identity.id) > 0

\* isOwner also accepting the owner's name as username
isOwner_OrOwnerName(identity) ==
    identity.id = OWNER_ID \/ identity.username = OWNER_NAME

\* OwnerValidator.isOwner: this.ownerId is SYSTEM_CONSTANTS.OWNER_ID
isOwner(identity) == identity.id = OWNER_ID

\* logSelection writing nothing
logSelection_Silent(selection) == <<>>

\* PersonaLogger.logSelection: the entries it writes
logSelection(selection) ==
    <<[level |-> "info", text |-> "Persona selected",
       meta |-> [persona |-> selection.persona, userId |-> selection.userId,
                 username |-> selection.username, isOwner |-> selection.isOwner,
                 messageId |-> selection.messageId,
                 channelId |-> selection.channelId]]>>

\* PersonaLogger.logError: the entries it writes
logError(error, userId, messageId) ==
    <<[level |-> "error", text |-> "Persona selection error",
       meta |-> [error |-> error.kind, userId |-> userId, messageId |-> messageId]]>>

\* no PersonaSelection
NoSelection ==
    [persona |-> "", userId |-> "", username |-> "", isOwner |-> FALSE,
     messageId |-> "", channelId |-> ""]

\* PersonaSelector.selectPersona: the error it throws (NoError when it
\* returns), the selection it returns, and the entries it has logged
selectPersona(message) ==
    LET identity == resolveIdentity(message)
        owner == isOwner(identity)
        selection == [persona |-> IF owner THEN BUTLER ELSE SUPERVISOR,
                      userId |-> identity.id,
                      username |-> identity.username,
                      isOwner |-> owner,
                      messageId |-> message.id,
                      channelId |-> message.channelId]
        error == Err("InvalidUser", "", "")
    IN  IF ~isValidUser(identity)
            THEN [error |-> error, ret |-> NoSelection,
                  logged |-> logError(error, message.author.id, message.id)]
            ELSE [error |-> NoError, ret |-> selection,
                  logged |-> logSelection(selection)]

\* PersonaSelector.getPersonaType: the error it throws (NoError when it
\* returns) and the persona type it returns; it writes nothing to the log
getPersonaType(message) ==
    LET identity == resolveIdentity(message)
        owner == isOwner(identity)
    IN  [error |-> NoError, ret |-> IF owner THEN BUTLER ELSE SUPERVISOR]

\* ownerValidator.isOwner(identity)
IsOwner(identity) ==
    /\ call' = CallRec("isOwner", <<identity>>, NoError, isOwner(identity))
    /\ UNCHANGED <<bStages, bCritical, bConfig, pipeline, addCalls, runs, auditLog, promptVars, botVars>>

\* personaSelector.selectPersona(message)
SelectPersona(message) ==
    /\ Len(auditLog) < MaxAudit
    /\ call' = CallRec("selectPersona", <<message>>,
                       selectPersona(message).error, selectPersona(message).ret)
    /\ auditLog' = auditLog \o selectPersona(message).logged
    /\ UNCHANGED <<bStages, bCritical, bConfig, pipeline, addCalls, runs, promptVars, botVars>>

\* personaSelector.getPersonaType(message)
GetPersonaType(message) ==
    /\ call' = CallRec("getPersonaType", <<message>>,
                       getPersonaType(message).error, getPersonaType(message).ret)
    /\ UNCHANGED <<bStages, bCritical, bConfig, pipeline, addCalls, runs, auditLog, promptVars, botVars>>

\* a caller of the authority check and of persona selection
NextPersona ==
    \/ \E identity \in Identities : IsOwner(identity)
    \/ \E message \in Messages : SelectPersona(message)
    \/ \E message \in Messages : GetPersonaType(message)

SpecPersona == Init /\ [][NextPersona]_vars

(***************************************************************************)
(* Texts                                                                   *)
(***************************************************************************)
\* the character at 1-based position i
CharAt(s, i) == SubSeq(s, i, i)

\* the characters String.prototype.trim removes
IsWhitespace(c) == c \in {" ", "\n", "\t"}

RECURSIVE TrimStart(_, _)
\* the first position from i on that holds no whitespace, Len(s) + 1 if none
TrimStart(s, i) ==
    IF i > Len(s) \/ ~IsWhitespace(CharAt(s, i)) THEN i ELSE TrimStart(s, i + 1)

RECURSIVE TrimEnd(_, _)
\* the last position up to i that holds no whitespace, 0 if none
TrimEnd(s, i) ==
    IF i < 1 \/ ~IsWhitespace(CharAt(s, i)) THEN i ELSE TrimEnd(s, i - 1)

\* String.prototype.trim
trim(s) == SubSeq(s, TrimStart(s, 1), TrimEnd(s, Len(s)))

\* the pieces the validated texts are made of
TextTokens == <<"${", "{{", "}", " ">>

RECURSIVE Concat(_)
\* the pieces of a sequence joined into one text
Concat(pieces) ==
    IF pieces = <<>> THEN "" ELSE Head(pieces) \o Concat(Tail(pieces))

\* the texts of at most MaxTokens pieces
Texts ==
    {Concat(pieces) :
        pieces \in UNION {[1..n -> {TextTokens[i] : i \in 1..Len(TextTokens)}] :
                             n \in 0..MaxTokens}}

\* a value of type unknown handed to validate
JsString(text) == [type |-> "string", text |-> text]
JsUndefined == [type |-> "undefined", text |-> ""]
JsValues == {JsString(t) : t \in Texts} \cup {JsUndefined}

(***************************************************************************)
(* PromptValidator (PromptBuilder.ts)                                      *)
(***************************************************************************)
\* the least element of a set of numbers
Min(S) == CHOOSE x \in S : \A y \in S : x <= y

\* the end of a match whose opening pair has been found, given the
\* positions after the pair that hold "}": the first of them for pattern 1;
\* for pattern 2 the position after it, which must hold "}" as well
ClosedAt(k, s, closers) ==
    IF closers = {} THEN 0
    ELSE IF k = 1 THEN Min(closers)
    ELSE IF Min(closers) + 1 <= Len(s) /\ CharAt(s, Min(closers) + 1) = "}"
    THEN Min(closers) + 1
    ELSE 0

\* The two expressions of FORBIDDEN_PATTERNS, \$\{[^}]*\} and
\* \{\{[^}]*\}\}: the position of the last character of the match that
\* starts at position p, 0 when none starts there.  [^}]* runs up to the
\* first "}" after the opening pair.
PatternMatchEnd(k, s, p) ==
    IF p + 1 > Len(s) \/ SubSeq(s, p, p + 1) # (IF k = 1 THEN "${" ELSE "{{") THEN 0
    ELSE ClosedAt(k, s, {j \in (p + 2)..Len(s) : CharAt(s, j) = "}"})

\* whether the text holds a placeholder of pattern k anywhere
ContainsPattern(k, s) == \E p \in 1..Len(s) : PatternMatchEnd(k, s, p) > 0

\* the result of test, given the positions from lastIndex on where a match
\* starts: the first of them is taken
FirstMatch(k, s, starts) ==
    IF starts = {} THEN [found |-> FALSE, lastIndex |-> 0]
    ELSE [found |-> TRUE, lastIndex |-> PatternMatchEnd(k, s, Min(starts))]

\* RegExp.prototype.test of a global (/g) expression: the search starts at
\* lastIndex; a match leaves lastIndex after it, a failure resets it to 0
RegExpTest(k, s, lastIndex) ==
    FirstMatch(k, s, {p \in (lastIndex + 1)..Len(s) : PatternMatchEnd(k, s, p) > 0})

RECURSIVE TestForbidden(_, _, _)
\* one turn of the loop over FORBIDDEN_PATTERNS, given what pattern.test
\* returned: a pattern that tests true throws, otherwise the loop goes on
ForbiddenTested(k, s, lastIndex, t) ==
    IF t.found
    THEN [error |-> Err("ForbiddenPattern", "", ""),
          lastIndex |-> [lastIndex EXCEPT ![k] = t.lastIndex]]
    ELSE TestForbidden(k + 1, s, [lastIndex EXCEPT ![k] = t.lastIndex])

\* the loop over FORBIDDEN_PATTERNS from pattern k on: the first pattern
\* that tests true throws, the later ones are not tested
TestForbidden(k, s, lastIndex) ==
    IF k > 2 THEN [error |-> NoError, lastIndex |-> lastIndex]
    ELSE ForbiddenTested(k, s, lastIndex, RegExpTest(k, s, lastIndex[k]))

\* PromptValidator.validate: the error thrown (NoError when it returns) and
\* the lastIndex of the two static expressions afterwards
validate(promptText, lastIndex) ==
    IF promptText.type # "string"
    THEN [error |-> Err("NotAString", "", ""), lastIndex |-> lastIndex]
    ELSE IF Len(trim(promptText.text)) = 0
    THEN [error |-> Err("EmptyPrompt", "", ""), lastIndex |-> lastIndex]
    ELSE TestForbidden(1, promptText.text, lastIndex)

\* PromptValidator.validateMinLength
validateMinLength(promptText, minLength) ==
    IF Len(trim(promptText)) < minLength THEN Err("TooShort", "", "") ELSE NoError

\* PromptValidator.validateMaxLength
validateMaxLength(promptText, maxLength) ==
    IF Len(promptText) > maxLength THEN Err("TooLong", "", "") ELSE NoError

\* a call of PromptValidator.validate
Validate(promptText) ==
    \E r \in {validate(promptText, reLastIndex)} :
        /\ reLastIndex' = r.lastIndex
        /\ call' = CallRec("validate", <<promptText>>, r.error, <<>>)
        /\ UNCHANGED <<bStages, bCritical, bConfig, pipeline, addCalls, runs,
                       auditLog, disk, loader, lastReads, botVars>>

(***************************************************************************)
(* PromptLoader (PromptBuilder.ts)                                         *)
(***************************************************************************)
\* the length limits validatePrompt passes to the validator
MIN_PROMPT_LENGTH == 10
MAX_PROMPT_LENGTH == 10000

\* the contents a prompt file is given: two usable texts, one with a
\* placeholder and one too short
FileTexts ==
    {"You are ACE Prime.", "Serve the owner well.", "Greet ${name} by name.",
     "Hi"}

\* the prompt files the loader's callers ask for
LoaderTypes == {BUTLER_SYSTEM, DEVELOPER}

\* what the constructor is given as config.enableHotReload, and NODE_ENV
HotReloadOptions == {"unset", "true", "false"}
NodeEnvs == {"development", "production"}

\* PromptLoader.loadFromDisk: the error thrown or the content read
loadFromDisk(promptType, files) ==
    IF ~files[promptType].exists
    THEN [error |-> Err("PromptFileNotFound", promptType, ""), content |-> ""]
    ELSE IF ~files[promptType].readable
    THEN [error |-> Err("PromptFileUnreadable", promptType, ""), content |-> ""]
    ELSE [error |-> NoError, content |-> files[promptType].content]

\* the length checks of validatePrompt, which follow PromptValidator.validate
\* when it has not thrown
ValidateLengths(promptText, basic) ==
    IF basic.error # NoError THEN basic
    ELSE IF validateMinLength(promptText, MIN_PROMPT_LENGTH) # NoError
    THEN [error |-> validateMinLength(promptText, MIN_PROMPT_LENGTH),
          lastIndex |-> basic.lastIndex]
    ELSE [error |-> validateMaxLength(promptText, MAX_PROMPT_LENGTH),
          lastIndex |-> basic.lastIndex]

\* PromptLoader.validatePrompt: the error rethrown (NoError when it
\* returns) and the lastIndex of the validator's expressions afterwards
validatePrompt(promptText, lastIndex) ==
    ValidateLengths(promptText, validate(JsString(promptText), lastIndex))

\* what load does with the outcome of loadFromDisk and, when the file was
\* read, of validatePrompt: it rethrows the error of either, or returns
\* the content, which it has put in the cache if it keeps one
Loaded(promptType, ld, lastIndex, read, valid, caching) ==
    IF read.error # NoError
    THEN [error |-> read.error, ret |-> "", loader |-> ld,
          lastIndex |-> lastIndex, reads |-> <<promptType>>]
    ELSE IF valid.error # NoError
    THEN [error |-> valid.error, ret |-> "", loader |-> ld,
          lastIndex |-> valid.lastIndex, reads |-> <<promptType>>]
    ELSE [error |-> NoError, ret |-> read.content,
          loader |-> IF caching
                     THEN [ld EXCEPT !.validated = @ \cup {promptType},
                                     !.cache[promptType] = Cached(read.content)]
                     ELSE ld,
          lastIndex |-> valid.lastIndex, reads |-> <<promptType>>]

\* PromptLoader.load with hot reload on
loadHotReload(promptType, ld, files, lastIndex) ==
    Loaded(promptType, ld, lastIndex, loadFromDisk(promptType, files),
           validatePrompt(loadFromDisk(promptType, files).content, lastIndex),
           FALSE)

\* PromptLoader.load with hot reload off and no cache entry: the file is
\* read, validated unless its type is in the validated set, and cached
loadAndCache(promptType, ld, files, lastIndex) ==
    Loaded(promptType, ld, lastIndex, loadFromDisk(promptType, files),
           IF promptType \in ld.validated
           THEN [error |-> NoError, lastIndex |-> lastIndex]
           ELSE validatePrompt(loadFromDisk(promptType, files).content, lastIndex),
           TRUE)

\* PromptLoader.load with hot reload off
loadCached(promptType, ld, files, lastIndex) ==
    IF ld.cache[promptType].defined
    THEN [error |-> NoError, ret |-> ld.cache[promptType].text, loader |-> ld,
          lastIndex |-> lastIndex, reads |-> <<>>]
    ELSE loadAndCache(promptType, ld, files, lastIndex)

\* PromptLoader.load: the error thrown or the text returned, the loader and
\* the validator's expressions afterwards, and the files read
load(promptType, ld, files, lastIndex) ==
    IF ld.enableHotReload
    THEN loadHotReload(promptType, ld, files, lastIndex)
    ELSE loadCached(promptType, ld, files, lastIndex)

\* new PromptLoader(config)
NewPromptLoader(enableHotReload, nodeEnv) ==
    /\ ~loader.constructed
    /\ loader' = [constructed |-> TRUE,
                  enableHotReload |->
                      IF enableHotReload = "unset" THEN nodeEnv = "development"
                      ELSE enableHotReload = "true",
                  cache |-> [t \in PromptTypes |-> Undefined],
                  validated |-> {}]
    /\ call' = CallRec("newPromptLoader", <<enableHotReload, nodeEnv>>, NoError, <<>>)
    /\ lastReads' = <<>>
    /\ UNCHANGED <<bStages, bCritical, bConfig, pipeline, addCalls, runs,
                   auditLog, reLastIndex, disk, botVars>>

\* a call of PromptLoader.load
Load(promptType) ==
    /\ loader.constructed
    /\ \E r \in {load(promptType, loader, disk, reLastIndex)} :
           /\ loader' = r.loader
           /\ reLastIndex' = r.lastIndex
           /\ lastReads' = r.reads
           /\ call' = CallRec("load", <<promptType>>, r.error, r.ret)
    /\ UNCHANGED <<bStages, bCritical, bConfig, pipeline, addCalls, runs,
                   auditLog, disk, botVars>>

\* a call of PromptLoader.clearCache
ClearCache ==
    /\ loader.constructed
    /\ loader' = [loader EXCEPT !.cache = [t \in PromptTypes |-> Undefined],
                                !.validated = {}]
    /\ call' = CallRec("clearCache", <<>>, NoError, <<>>)
    /\ lastReads' = <<>>
    /\ UNCHANGED <<bStages, bCritical, bConfig, pipeline, addCalls, runs,
                   auditLog, reLastIndex, disk, botVars>>

\* the prompts directory changes: a file is written, replaced, made
\* unreadable or deleted
ChangeFile(promptType, file) ==
    /\ disk[promptType] # file
    /\ disk' = [disk EXCEPT ![promptType] = file]
    /\ UNCHANGED <<bStages, bCritical, bConfig, pipeline, addCalls, call, runs,
                   auditLog, reLastIndex, loader, lastReads, botVars>>

\* what preloadAll has done so far: the loader and the validator's
\* expressions, the files read, and its results array
PreloadStart(ld, lastIndex) ==
    [loader |-> ld, lastIndex |-> lastIndex, reads |-> <<>>, results |-> <<>>]

\* the error preloadAll throws: it counts the failures and names each
\* failed prompt with the message of its error
PreloadFailed(failures) ==
    [kind |-> "PreloadFailed", stage |-> "", dep |-> "", failed |-> failures]

\* results.filter(r => !r.success)
Failures(results) == SelectSeq(results, LAMBDA res : ~res.success)

RECURSIVE preloadFrom_StopAtFailure(_, _, _)
\* the loop of preloadAll without its try block: the first load that throws
\* ends the loop
preloadLoaded_StopAtFailure(i, files, acc, r) ==
    IF r.error # NoError
    THEN [loader |-> r.loader, lastIndex |-> r.lastIndex,
          reads |-> acc.reads \o r.reads,
          results |-> Append(acc.results,
                             [type |-> PromptTypeSeq[i], success |-> FALSE,
                              error |-> r.error])]
    ELSE preloadFrom_StopAtFailure(i + 1, files,
             [loader |-> r.loader, lastIndex |-> r.lastIndex,
              reads |-> acc.reads \o r.reads,
              results |-> Append(acc.results,
                                 [type |-> PromptTypeSeq[i], success |-> TRUE,
                                  error |-> NoError])])

preloadFrom_StopAtFailure(i, files, acc) ==
    IF i > Len(PromptTypeSeq) THEN acc
    ELSE preloadLoaded_StopAtFailure(i, files, acc,
             load(PromptTypeSeq[i], acc.loader, files, acc.lastIndex))

RECURSIVE preloadFrom(_, _, _)
\* one turn of the loop of preloadAll, given what this.load did: the
\* outcome is pushed to results, whether load returned or threw
preloadLoaded(i, files, acc, r) ==
    preloadFrom(i + 1, files,
        [loader |-> r.loader, lastIndex |-> r.lastIndex,
         reads |-> acc.reads \o r.reads,
         results |-> Append(acc.results,
                            [type |-> PromptTypeSeq[i],
                             success |-> r.error = NoError,
                             error |-> r.error])])

\* the loop of preloadAll over Object.values(PromptType), from the i-th on
preloadFrom(i, files, acc) ==
    IF i > Len(PromptTypeSeq) THEN acc
    ELSE preloadLoaded(i, files, acc,
             load(PromptTypeSeq[i], acc.loader, files, acc.lastIndex))

\* the end of preloadAll: it throws when a load has failed
preloadEnd(acc) ==
    [error |-> IF Len(Failures(acc.results)) > 0
               THEN PreloadFailed(Failures(acc.results)) ELSE NoError,
     loader |-> acc.loader, lastIndex |-> acc.lastIndex, reads |-> acc.reads]

\* PromptLoader.preloadAll: the error thrown, the loader and the
\* validator's expressions afterwards, and the files read
preloadAll(ld, files, lastIndex) ==
    preloadEnd(preloadFrom(1, files, PreloadStart(ld, lastIndex)))

\* a call of PromptLoader.preloadAll
PreloadAll ==
    /\ loader.constructed
    /\ \E r \in {preloadAll(loader, disk, reLastIndex)} :
           /\ loader' = r.loader
           /\ reLastIndex' = r.lastIndex
           /\ lastReads' = r.reads
           /\ call' = CallRec("preloadAll", <<>>, r.error, <<>>)
    /\ UNCHANGED <<bStages, bCritical, bConfig, pipeline, addCalls, runs,
                   auditLog, disk, botVars>>

\* the states a prompt file is put in
FileStates == {File(content) : content \in FileTexts} \cup {NoFile, Unreadable}

\* one loader, its callers and the prompts directory
NextLoader ==
    \/ \E enableHotReload \in HotReloadOptions, nodeEnv \in NodeEnvs :
           NewPromptLoader(enableHotReload, nodeEnv)
    \/ \E promptType \in LoaderTypes : Load(promptType)
    \/ ClearCache
    \/ \E promptType \in LoaderTypes, file \in FileStates :
           ChangeFile(promptType, file)

SpecLoader == Init /\ [][NextLoader]_vars

\* the states a prompt file is put in while the loader preloads: a usable
\* text, a text with a placeholder, no file
PreloadFileStates ==
    {File("You are ACE Prime."), File("Greet ${name} by name."), NoFile}

\* one loader whose callers also preload, and the prompts directory with
\* the three prompt files
NextPreload ==
    \/ \E enableHotReload \in HotReloadOptions, nodeEnv \in NodeEnvs :
           NewPromptLoader(enableHotReload, nodeEnv)
    \/ \E promptType \in PromptTypes : Load(promptType)
    \/ PreloadAll
    \/ ClearCache
    \/ \E promptType \in PromptTypes, file \in PreloadFileStates :
           ChangeFile(promptType, file)

SpecPreload == Init /\ [][NextPreload]_vars

(***************************************************************************)
(* PromptBuilder (PromptBuilder.ts)                                        *)
(***************************************************************************)
RECURSIVE Join(_, _)
\* Array.prototype.join
Join(parts, separator) ==
    IF parts = <<>> THEN ""
    ELSE IF Len(parts) = 1 THEN parts[1]
    ELSE parts[1] \o separator \o Join(Tail(parts), separator)

\* Object.values(PersonaType)
PersonaTypes == {BUTLER, SUPERVISOR}

\* no ContextSummary
NoContext ==
    [present |-> FALSE, conversationSummary |-> "", projectContext |-> "",
     userPreferences |-> "", additionalContext |-> <<>>]

\* a ContextSummary; an absent text field is the empty string, and
\* additionalContext is the sequence of its entries
Context(conversationSummary, projectContext, userPreferences, additionalContext) ==
    [present |-> TRUE, conversationSummary |-> conversationSummary,
     projectContext |-> projectContext, userPreferences |-> userPreferences,
     additionalContext |-> additionalContext]

\* the contexts build is given
Contexts ==
    {NoContext,
     Context("", "", "", <<>>),
     Context("", "", " ", <<>>),
     Context("Earlier talk", "Project X", "Short answers",
             <<<<"tone", "formal">>, <<"lang", "en">>>>)}

\* the persona selections build is given: none, the two known personas and
\* an unknown one
BuildSelections ==
    {NoSelection} \cup
    {[persona |-> p, userId |-> OWNER_ID, username |-> OWNER_NAME,
      isOwner |-> p = BUTLER, messageId |-> "m1", channelId |-> "c1"] :
         p \in PersonaTypes \cup {"JESTER"}}

\* the user messages build is given
UserMessages == {"", "  ", " hi ${x}\n"}

\* the inputs of build
BuildInputs ==
    [personaSelection : BuildSelections, userMessage : UserMessages,
     context : Contexts]

\* PromptBuilder.validatePersonaSelection
validatePersonaSelection(personaSelection) ==
    IF personaSelection = NoSelection THEN Err("PersonaSelectionRequired", "", "")
    ELSE IF personaSelection.persona \notin PersonaTypes
    THEN Err("UnknownPersona", "", "")
    ELSE NoError

\* the prompt file loadSystemPrompt asks for
SystemPromptType(persona) ==
    IF persona = BUTLER THEN BUTLER_SYSTEM ELSE SUPERVISOR_SYSTEM

\* what loadSystemPrompt and loadDeveloperPrompt do with the outcome of
\* load: an error is wrapped, an empty text is an error, wrapped as well
PromptLoaded(promptType, kind, r) ==
    IF r.error # NoError
    THEN [r EXCEPT !.error = Err(kind, promptType, r.error.kind)]
    ELSE IF Len(r.ret) = 0 \/ Len(trim(r.ret)) = 0
    THEN [r EXCEPT !.error = Err(kind, promptType, "PromptEmpty"), !.ret = ""]
    ELSE r

\* the body of loadSystemPrompt and of loadDeveloperPrompt: the load, the
\* emptiness check, and every error wrapped in the given kind
loadPrompt(promptType, kind, ld, files, lastIndex) ==
    PromptLoaded(promptType, kind, load(promptType, ld, files, lastIndex))

\* PromptBuilder.loadSystemPrompt
loadSystemPrompt(persona, ld, files, lastIndex) ==
    loadPrompt(SystemPromptType(persona), "FailedToLoadSystemPrompt",
               ld, files, lastIndex)

\* PromptBuilder.loadDeveloperPrompt
loadDeveloperPrompt(ld, files, lastIndex) ==
    loadPrompt(DEVELOPER, "FailedToLoadDeveloperPrompt", ld, files, lastIndex)

RECURSIVE AdditionalParts(_)
\* the entries of additionalContext, each as key, colon, newline, value
AdditionalParts(entries) ==
    IF entries = <<>> THEN <<>>
    ELSE <<entries[1][1] \o ":\n" \o entries[1][2]>> \o AdditionalParts(Tail(entries))

\* PromptBuilder.formatContextBlock
formatContextBlock(context) ==
    LET additional == Join(AdditionalParts(context.additionalContext), "\n\n")
        parts ==
            (IF context.conversationSummary # ""
             THEN <<"Conversation Context:\n" \o context.conversationSummary>>
             ELSE <<>>)
            \o (IF context.projectContext # ""
                THEN <<"Project Context:\n" \o context.projectContext>>
                ELSE <<>>)
            \o (IF context.userPreferences # ""
                THEN <<"User Preferences:\n" \o context.userPreferences>>
                ELSE <<>>)
            \o (IF additional # "" THEN <<additional>> ELSE <<>>)
    IN  Join(parts, "\n\n")

\* PromptBuilder.assembleSystemMessage with the developer prompt first
assembleSystemMessage_DeveloperFirst(systemPrompt, developerPrompt, context) ==
    LET contextBlock == formatContextBlock(context)
    IN  Join(<<developerPrompt, systemPrompt>>
             \o (IF context.present /\ Len(trim(contextBlock)) > 0
                 THEN <<"\n--- Context ---\n" \o contextBlock>>
                 ELSE <<>>),
             "\n\n")

\* PromptBuilder.assembleSystemMessage
assembleSystemMessage(systemPrompt, developerPrompt, context) ==
    LET contextBlock == formatContextBlock(context)
    IN  Join(<<systemPrompt, developerPrompt>>
             \o (IF context.present /\ Len(trim(contextBlock)) > 0
                 THEN <<"\n--- Context ---\n" \o contextBlock>>
                 ELSE <<>>),
             "\n\n")

\* no BuiltPrompt
NoPrompt ==
    [messages |-> <<>>,
     metadata |-> [persona |-> "", userId |-> "", messageId |-> "",
                   hasContext |-> FALSE]]

\* build once both prompts have been asked for: the failure of the
\* developer prompt is rethrown, or the prompt is assembled and returned
DeveloperLoaded(input, system, developer) ==
    IF developer.error # NoError
    THEN [error |-> developer.error, ret |-> NoPrompt,
          loader |-> developer.loader, lastIndex |-> developer.lastIndex,
          reads |-> system.reads \o developer.reads]
    ELSE [error |-> NoError,
          ret |-> [messages |->
                      <<[role |-> "system",
                         content |-> assembleSystemMessage(
                             system.ret, developer.ret, input.context)],
                        [role |-> "user", content |-> input.userMessage]>>,
                   metadata |->
                      [persona |-> input.personaSelection.persona,
                       userId |-> input.personaSelection.userId,
                       messageId |-> input.personaSelection.messageId,
                       hasContext |-> input.context.present]],
          loader |-> developer.loader, lastIndex |-> developer.lastIndex,
          reads |-> system.reads \o developer.reads]

\* build once the system prompt has been asked for: its failure is
\* rethrown, or the developer prompt is asked for
SystemLoaded(input, files, system) ==
    IF system.error # NoError
    THEN [error |-> system.error, ret |-> NoPrompt, loader |-> system.loader,
          lastIndex |-> system.lastIndex, reads |-> system.reads]
    ELSE DeveloperLoaded(input, system,
             loadDeveloperPrompt(system.loader, files, system.lastIndex))

\* the try block of PromptBuilder.build once the selection and the user
\* message have passed their checks
buildMessages(input, ld, files, lastIndex) ==
    SystemLoaded(input, files,
        loadSystemPrompt(input.personaSelection.persona, ld, files, lastIndex))

\* PromptBuilder.build without the check of the user message
build_NoUserMessageCheck(input, ld, files, lastIndex) ==
    IF validatePersonaSelection(input.personaSelection) # NoError
    THEN [error |-> validatePersonaSelection(input.personaSelection),
          ret |-> NoPrompt, loader |-> ld, lastIndex |-> lastIndex,
          reads |-> <<>>]
    ELSE buildMessages(input, ld, files, lastIndex)

\* PromptBuilder.build that takes the Supervisor persona when the selection
\* is missing or its persona unknown
build_DefaultPersona(input, ld, files, lastIndex) ==
    IF Len(input.userMessage) = 0 \/ Len(trim(input.userMessage)) = 0
    THEN [error |-> Err("UserMessageRequired", "", ""), ret |-> NoPrompt,
          loader |-> ld, lastIndex |-> lastIndex, reads |-> <<>>]
    ELSE buildMessages(input, ld, files, lastIndex)

\* PromptBuilder.build: the error it rethrows or the prompt it returns, the
\* loader and the validator's expressions afterwards, and the files read
build(input, ld, files, lastIndex) ==
    IF validatePersonaSelection(input.personaSelection) # NoError
    THEN [error |-> validatePersonaSelection(input.personaSelection),
          ret |-> NoPrompt, loader |-> ld, lastIndex |-> lastIndex,
          reads |-> <<>>]
    ELSE IF Len(input.userMessage) = 0 \/ Len(trim(input.userMessage)) = 0
    THEN [error |-> Err("UserMessageRequired", "", ""), ret |-> NoPrompt,
          loader |-> ld, lastIndex |-> lastIndex, reads |-> <<>>]
    ELSE buildMessages(input, ld, files, lastIndex)

\* a call of PromptBuilder.build
BuildPrompt(input) ==
    /\ loader.constructed
    /\ \E r \in {build(input, loader, disk, reLastIndex)} :
           /\ loader' = r.loader
           /\ reLastIndex' = r.lastIndex
           /\ lastReads' = r.reads
           /\ call' = CallRec("buildPrompt", <<input>>, r.error, r.ret)
    /\ UNCHANGED <<bStages, bCritical, bConfig, pipeline, addCalls, runs,
                   auditLog, disk, botVars>>

\* PromptBuilder.validate: the error it throws, NoError when it returns
validateBuiltPrompt(builtPrompt) ==
    IF Len(builtPrompt.messages) < 2 THEN Err("TooFewMessages", "", "")
    ELSE IF builtPrompt.messages[1].role # "system"
    THEN Err("FirstMessageNotSystem", "", "")
    ELSE IF builtPrompt.messages[Len(builtPrompt.messages)].role # "user"
    THEN Err("LastMessageNotUser", "", "")
    ELSE IF \E i \in 1..Len(builtPrompt.messages) :
                \/ Len(builtPrompt.messages[i].content) = 0
                \/ Len(trim(builtPrompt.messages[i].content)) = 0
    THEN Err("EmptyContent", "", "")
    ELSE NoError

\* buildAndValidate once build has been called: what build threw is
\* thrown, or the prompt is validated and returned
Built(r) ==
    IF r.error # NoError THEN r
    ELSE IF validateBuiltPrompt(r.ret) # NoError
    THEN [r EXCEPT !.error = validateBuiltPrompt(r.ret), !.ret = NoPrompt]
    ELSE r

\* PromptBuilder.buildAndValidate
buildAndValidate(input, ld, files, lastIndex) ==
    Built(build(input, ld, files, lastIndex))

\* a call of PromptBuilder.buildAndValidate
BuildAndValidate(input) ==
    /\ loader.constructed
    /\ \E r \in {buildAndValidate(input, loader, disk, reLastIndex)} :
           /\ loader' = r.loader
           /\ reLastIndex' = r.lastIndex
           /\ lastReads' = r.reads
           /\ call' = CallRec("buildAndValidate", <<input>>, r.error, r.ret)
    /\ UNCHANGED <<bStages, bCritical, bConfig, pipeline, addCalls, runs,
                   auditLog, disk, botVars>>

\* the text each prompt file holds when it is in place
PromptFileText ==
    [t \in PromptTypes |->
        IF t = BUTLER_SYSTEM THEN "You are the butler of ACE."
        ELSE IF t = SUPERVISOR_SYSTEM THEN "You supervise this server."
        ELSE "Answer briefly."]

\* a PromptBuilder on its PromptLoader, its callers, and the prompt files
\* put in place and removed
NextPrompt ==
    \/ \E enableHotReload \in HotReloadOptions, nodeEnv \in NodeEnvs :
           NewPromptLoader(enableHotReload, nodeEnv)
    \/ \E input \in BuildInputs : BuildPrompt(input)
    \/ \E promptType \in PromptTypes :
           \E file \in {File(PromptFileText[promptType]), NoFile} :
               ChangeFile(promptType, file)

SpecPrompt == Init /\ [][NextPrompt]_vars

\* the same, with callers that also build and validate in one call
NextValidated ==
    \/ \E enableHotReload \in HotReloadOptions, nodeEnv \in NodeEnvs :
           NewPromptLoader(enableHotReload, nodeEnv)
    \/ \E input \in BuildInputs : BuildPrompt(input)
    \/ \E input \in BuildInputs : BuildAndValidate(input)
    \/ \E promptType \in PromptTypes :
           \E file \in {File(PromptFileText[promptType]), NoFile} :
               ChangeFile(promptType, file)

SpecValidated == Init /\ [][NextValidated]_vars

\* the validator called on any sequence of values
NextValidator == \E promptText \in JsValues : Validate(promptText)

SpecValidator == Init /\ [][NextValidator]_vars

(***************************************************************************)
(* MessageHandler (MessageHandler.ts, AIAvailabilityChecker.ts)            *)
(***************************************************************************)
FALLBACK_MESSAGE == "ACE Prime is online. AI responses are currently disabled."

\* the values OPENAI_API_KEY has when the handler is constructed
ApiKeys == {Unset, Set(""), Set("  "), Set("sk-test")}

\* AIAvailabilityChecker.isOpenAIAvailable
isOpenAIAvailable(apiKey) ==
    apiKey.set /\ Len(apiKey.value) > 0 /\ Len(trim(apiKey.value)) > 0

\* the messages the bot receives: from the owner, from another user, from a
\* user whose id is empty, and from a bot
HandlerMessages ==
    {[id |-> id, channelId |-> "c1",
      author |-> [id |-> a[1], username |-> a[2], discriminator |-> "0",
                  bot |-> a[3]],
      member |-> NoMember] :
        id \in MessageIds,
        a \in {<<OWNER_ID, OWNER_NAME, FALSE>>,
               <<"618512174620475395", "guest", FALSE>>,
               <<"", "guest", FALSE>>,
               <<"618512174620475395", "relay", TRUE>>}}

\* a call on the handler's logger
LogEntry(level, text, messageId) ==
    [kind |-> "log", level |-> level, text |-> text, messageId |-> messageId]

\* a read of this.isOpenAIAvailable while handling the message
GuardEntry(messageId) ==
    [kind |-> "guard", level |-> "", text |-> "", messageId |-> messageId]

\* a call of message.reply
ReplyEntry(messageId, text) ==
    [kind |-> "reply", level |-> "", text |-> text, messageId |-> messageId]

\* the entries PersonaLogger writes, as calls on the handler's logger
PersonaEntries(logged) ==
    [i \in 1..Len(logged) |->
        LogEntry(logged[i].level, logged[i].text, logged[i].meta.messageId)]

\* handleMessage without the test of message.author.bot
handleMessage_NoBotCheck(message, available) ==
    LET selection == selectPersona(message)
        selected ==
            <<LogEntry("debug", "Processing message", message.id)>>
            \o PersonaEntries(selection.logged)
    IN  IF selection.error # NoError
        THEN [entries |-> selected \o
                  <<LogEntry("error", "Persona selection failed", message.id)>>,
              audit |-> selection.logged, promise |-> "resolved", reply |-> "none"]
        ELSE IF ~available
        THEN [entries |-> selected \o
                  <<LogEntry("debug", "Persona selection completed", message.id),
                    GuardEntry(message.id),
                    ReplyEntry(message.id, FALLBACK_MESSAGE)>>,
              audit |-> selection.logged, promise |-> "pending", reply |-> "pending"]
        ELSE [entries |-> selected \o
                  <<LogEntry("debug", "Persona selection completed", message.id),
                    GuardEntry(message.id),
                    LogEntry("debug",
                             "OpenAI available, but AI pipeline not yet implemented",
                             message.id)>>,
              audit |-> selection.logged, promise |-> "resolved", reply |-> "none"]

\* handleMessage reading the availability guard, and replying, before it
\* selects the persona
handleMessage_GuardFirst(message, available) ==
    LET r == handleMessage_NoBotCheck(message, TRUE)
    IN  IF message.author.bot
        THEN [entries |-> <<>>, audit |-> <<>>, promise |-> "resolved",
              reply |-> "none"]
        ELSE IF ~available
        THEN [entries |-> <<GuardEntry(message.id),
                            ReplyEntry(message.id, FALLBACK_MESSAGE)>>
                          \o r.entries,
              audit |-> r.audit, promise |-> "pending", reply |-> "pending"]
        ELSE r

\* MessageHandler.handleMessage up to its first await: the calls it makes
\* in order, the entries PersonaLogger writes, the state of the promise it
\* returns and of the reply it has asked for
handleMessage(message, available) ==
    IF message.author.bot
    THEN [entries |-> <<>>, audit |-> <<>>, promise |-> "resolved",
          reply |-> "none"]
    ELSE handleMessage_NoBotCheck(message, available)

\* sendFallbackResponse and handleMessage after message.reply has resolved
replyResolved(messageId) ==
    [entries |-> <<LogEntry("debug", "Fallback message sent", messageId)>>,
     promise |-> "resolved", reply |-> "sent"]

\* sendFallbackResponse letting the failure of message.reply through, and
\* handleMessage letting it through as well
replyRejected_Rethrow(messageId) ==
    [entries |-> <<>>, promise |-> "rejected", reply |-> "failed"]

\* sendFallbackResponse and handleMessage after message.reply has rejected
replyRejected(messageId) ==
    [entries |-> <<LogEntry("error", "Failed to send fallback message", messageId)>>,
     promise |-> "resolved", reply |-> "failed"]

\* the MessageHandler constructor: the instance and the calls it makes
newMessageHandler(apiKey) ==
    [handler |-> [constructed |-> TRUE,
                  isOpenAIAvailable |-> isOpenAIAvailable(apiKey)],
     entries |->
        <<IF isOpenAIAvailable(apiKey)
          THEN LogEntry("info", "OpenAI API key detected. AI responses enabled.", "")
          ELSE LogEntry("warn",
                        "OpenAI API key not configured. Bot will run in fallback mode.",
                        "")>>]

\* new MessageHandler(logger)
NewMessageHandler(apiKey) ==
    /\ ~handler.constructed
    /\ handler' = newMessageHandler(apiKey).handler
    /\ trace' = trace \o newMessageHandler(apiKey).entries
    /\ UNCHANGED <<bStages, bCritical, bConfig, pipeline, addCalls, call, runs,
                   auditLog, promptVars, handling, proc>>

\* messageHandler.handleMessage(message), up to its first await
HandleMessage(message) ==
    /\ handler.constructed
    /\ handling[message.id].promise = "none"
    /\ LET r == handleMessage(message, handler.isOpenAIAvailable)
       IN  /\ trace' = trace \o r.entries
           /\ auditLog' = auditLog \o r.audit
           /\ handling' = [handling EXCEPT ![message.id] =
                              [promise |-> r.promise, reply |-> r.reply,
                               message |-> message]]
    /\ UNCHANGED <<bStages, bCritical, bConfig, pipeline, addCalls, call, runs,
                   promptVars, handler, proc>>

\* the promise of message.reply resolves
ReplyResolved(messageId) ==
    /\ handling[messageId].reply = "pending"
    /\ LET r == replyResolved(messageId)
       IN  /\ trace' = trace \o r.entries
           /\ handling' = [handling EXCEPT ![messageId].promise = r.promise,
                                           ![messageId].reply = r.reply]
    /\ UNCHANGED <<bStages, bCritical, bConfig, pipeline, addCalls, call, runs,
                   auditLog, promptVars, handler, proc>>

\* the promise of message.reply rejects
ReplyRejected(messageId) ==
    /\ handling[messageId].reply = "pending"
    /\ LET r == replyRejected(messageId)
       IN  /\ trace' = trace \o r.entries
           /\ handling' = [handling EXCEPT ![messageId].promise = r.promise,
                                           ![messageId].reply = r.reply]
    /\ UNCHANGED <<bStages, bCritical, bConfig, pipeline, addCalls, call, runs,
                   auditLog, promptVars, handler, proc>>

\* one handler, the messages it is called on, and their replies settling
NextHandler ==
    \/ \E apiKey \in ApiKeys : NewMessageHandler(apiKey)
    \/ \E message \in HandlerMessages : HandleMessage(message)
    \/ \E messageId \in MessageIds : ReplyResolved(messageId)
    \/ \E messageId \in MessageIds : ReplyRejected(messageId)

SpecHandler == Init /\ [][NextHandler]_vars

(***************************************************************************)
(* main (index.ts)                                                         *)
(***************************************************************************)
\* the values DISCORD_TOKEN has when the process starts
DiscordTokens == {Unset, Set(""), Set("  "), Set("discord-token")}

\* the startup guard testing only that DISCORD_TOKEN is set and not empty
tokenMissing_NoTrim(discordToken) ==
    ~discordToken.set \/ Len(discordToken.value) = 0

\* the startup guard: !discordToken || discordToken.trim().length === 0
tokenMissing(discordToken) ==
    \/ ~discordToken.set
    \/ Len(discordToken.value) = 0
    \/ Len(trim(discordToken.value)) = 0

\* main() up to its first await: the guard exits the process, or the client
\* and the handler are created, the listeners registered and login called
Main(discordToken, apiKey) ==
    /\ proc.pc = "notStarted"
    /\ ~handler.constructed
    /\ IF tokenMissing(discordToken)
       THEN /\ proc' = [proc EXCEPT
                           !.pc = "exited", !.exitCode = 1,
                           !.discordToken = discordToken,
                           !.console = Append(@,
                               "DISCORD_TOKEN is not set. Bot cannot start.")]
            /\ trace' = trace \o <<LogEntry("info", "Starting ACE Prime...", "")>>
            /\ handler' = handler
       ELSE /\ proc' = [proc EXCEPT
                           !.pc = "login", !.discordToken = discordToken,
                           !.clientCreated = TRUE, !.handlerRegistered = TRUE,
                           !.loginToken = Append(@, discordToken.value)]
            /\ trace' = trace \o <<LogEntry("info", "Starting ACE Prime...", "")>>
                              \o newMessageHandler(apiKey).entries
            /\ handler' = newMessageHandler(apiKey).handler
    /\ UNCHANGED <<bStages, bCritical, bConfig, pipeline, addCalls, call, runs,
                   auditLog, promptVars, handling>>

\* client.login resolves: main returns and the process stays up
LoginResolved ==
    /\ proc.pc = "login"
    /\ proc' = [proc EXCEPT !.pc = "online"]
    /\ UNCHANGED <<bStages, bCritical, bConfig, pipeline, addCalls, call, runs,
                   auditLog, promptVars, handler, handling, trace>>

\* client.login rejects: the catch block logs and exits
LoginRejected ==
    /\ proc.pc = "login"
    /\ proc' = [proc EXCEPT !.pc = "exited", !.exitCode = 1]
    /\ trace' = trace \o <<LogEntry("error", "Failed to login to Discord", "")>>
    /\ UNCHANGED <<bStages, bCritical, bConfig, pipeline, addCalls, call, runs,
                   auditLog, promptVars, handler, handling>>

\* SIGINT or SIGTERM: the listener logs, destroys the client and exits
Shutdown ==
    /\ proc.pc \in {"login", "online"}
    /\ proc' = [proc EXCEPT !.pc = "exited", !.exitCode = 0]
    /\ trace' = trace \o <<LogEntry("info", "Shutting down ACE Prime...", "")>>
    /\ UNCHANGED <<bStages, bCritical, bConfig, pipeline, addCalls, call, runs,
                   auditLog, promptVars, handler, handling>>

\* the client emits messageCreate: the listener calls handleMessage
MessageCreate(message) ==
    /\ proc.pc = "online"
    /\ proc.handlerRegistered
    /\ HandleMessage(message)

\* the process from its start: main, the login settling, the messages the
\* client delivers while the process is up and their replies settling, and
\* the termination signals
NextMain ==
    \/ \E discordToken \in DiscordTokens, apiKey \in ApiKeys :
           Main(discordToken, apiKey)
    \/ LoginResolved
    \/ LoginRejected
    \/ Shutdown
    \/ \E message \in HandlerMessages : MessageCreate(message)
    \/ \E messageId \in MessageIds : proc.pc = "online" /\ ReplyResolved(messageId)
    \/ \E messageId \in MessageIds : proc.pc = "online" /\ ReplyRejected(messageId)

SpecMain == Init /\ [][NextMain]_vars

(***************************************************************************)
(* Construction-time properties                                            *)
(***************************************************************************)
\* no two entries of the list share a name
DistinctNames(list) ==
    \A i, j \in 1..Len(list) : i # j => list[i].stageName # list[j].stageName

\* the k-th dependency of entry i names an entry at a strictly smaller index
DepStrictlyBefore(list, i, k) ==
    \E j \in 1..(i - 1) : list[j].stageName = list[i].dependencies[k]

\* the k-th dependency of entry i names no entry of the list
DepUnknown(list, i, k) ==
    \A j \in 1..Len(list) : list[j].stageName # list[i].dependencies[k]

\* the k-th dependency of entry i names an entry that appears later
DepLater(list, i, k) ==
    \E j \in (i + 1)..Len(list) : list[j].stageName = list[i].dependencies[k]

DepPositions(list) ==
    {p \in (1..Len(list)) \X (1..MaxDeps + 1) : p[2] <= Len(list[p[1]].dependencies)}

\* a valid stage list: non-empty, distinct names, forward-only dependencies
ValidStageList(list) ==
    /\ Len(list) > 0
    /\ DistinctNames(list)
    /\ \A p \in DepPositions(list) : DepStrictlyBefore(list, p[1], p[2])

\* the stages build was handed: the addStage calls, in call order
InputNames == [i \in 1..Len(addCalls) |-> addCalls[i].stageName]

\* C1: for every non-empty stage list with pairwise distinct names whose
\* dependencies all name a stage at a strictly smaller index, build (with a
\* logger set) succeeds, and getStageNames() returns the names in exactly the
\* addStage call order.
C1_ValidListBuildsInInputOrder ==
    /\ (call.op = "build" /\ bConfig.logger /\ ValidStageList(addCalls))
            => (call.error = NoError /\ pipeline.built)
    /\ (call.op = "getStageNames" /\ ValidStageList(addCalls))
            => call.ret = InputNames

C1_Witness ==
    /\ call.op = "getStageNames"
    /\ Len(addCalls) = 3
    /\ ValidStageList(addCalls)
    /\ Len(addCalls[3].dependencies) > 0
    /\ call.ret = InputNames

\* C2: construction fails and leaves no Pipeline instance for every stage
\* list that is empty, has two stages of one name, or has a dependency that
\* names no stage of the list or a stage that is not strictly earlier; so a
\* Pipeline that was constructed has distinct names and backward-only
\* dependencies.
C2_InvalidListNeverConstructs ==
    call.op = "build" =>
        /\ ~ValidStageList(addCalls) => (call.error # NoError /\ ~pipeline.built)
        /\ pipeline.built => ValidStageList(pStages)

C2_Witness ==
    /\ call.op = "build"
    /\ bConfig.logger
    /\ Len(addCalls) = 2
    /\ DistinctNames(addCalls)
    /\ addCalls[2].dependencies = <<addCalls[2].stageName>>
    /\ call.error # NoError
    /\ ~pipeline.built

\* C3 (as claimed): whenever two entries of the list share a name, whatever
\* the dependencies, construction fails with DuplicateStageName naming a
\* duplicated stage.
C3_DuplicateAlwaysReported ==
    (call.op = "build" /\ bConfig.logger /\ ~DistinctNames(addCalls))
        => /\ call.error.kind = "DuplicateStageName"
           /\ \E i, j \in 1..Len(addCalls) :
                 /\ i # j
                 /\ addCalls[i].stageName = call.error.stage
                 /\ addCalls[j].stageName = call.error.stage

CheckFails(list, p) ==
    IF p[2] = 0
        THEN \E j \in 1..Len(list) : j # p[1] /\ list[j].stageName = list[p[1]].stageName
        ELSE ~DepStrictlyBefore(list, p[1], p[2])

FailingChecks(list) ==
    {p \in (1..Len(list)) \X (0..MaxDeps + 1) :
        /\ p[2] <= Len(list[p[1]].dependencies)
        /\ CheckFails(list, p)}

Earlier(p, q) == p[1] < q[1] \/ (p[1] = q[1] /\ p[2] <= q[2])

FirstFailingCheck(list) ==
    CHOOSE p \in FailingChecks(list) : \A q \in FailingChecks(list) : Earlier(p, q)

KindOfCheck(list, p) ==
    IF p[2] = 0 THEN "DuplicateStageName"
    ELSE IF DepUnknown(list, p[1], p[2]) THEN "UnknownDependency"
    ELSE "DependencyOrderViolation"

FirstPosition(n) ==
    IF \A i \in 1..Len(pStages) : pStages[i].stageName # n THEN 0
    ELSE CHOOSE i \in 1..Len(pStages) :
            /\ pStages[i].stageName = n
            /\ \A j \in 1..(i - 1) : pStages[j].stageName # n

\* C10: validatePersonaOrdering(before, after) fails if and only if before
\* is absent, or after is absent, or the index of before is not strictly
\* less than the index of after; and it leaves the stage list unchanged.
C10_OrderingAssertion ==
    /\ [](call.op = "validatePersonaOrdering" =>
            LET before == FirstPosition(call.args[1])
                after == FirstPosition(call.args[2])
            IN  (call.error # NoError)
                    <=> (before = 0 \/ after = 0 \/ ~(before < after)))
    /\ [][call'.op = "validatePersonaOrdering" => pStages' = pStages]_vars

C10_Witness ==
    /\ call.op = "validatePersonaOrdering"
    /\ call.args[1] = call.args[2]
    /\ FirstPosition(call.args[1]) > 0
    /\ call.error # NoError

(***************************************************************************)
(* Execution properties                                                    *)
(***************************************************************************)
\* the executeStage calls of a run that have returned (not thrown), in order
Succeeded(run) ==
    LET Returned(e) == ~\E k \in 1..Len(run.failed) :
                            run.failed[k].index = e.index /\ run.failed[k].reason = "threw"
    IN  SelectSeq(SubSeq(run.invoked, 1, run.settled), Returned)

\* the data of the last stage that succeeded, the input record if none did
LastSuccessfulData(run) ==
    LET ok == Succeeded(run)
    IN  IF Len(ok) = 0 THEN run.message
        ELSE ExecuteStage(pStages[ok[Len(ok)].index], ok[Len(ok)].input)

\* the failure makes the orchestrator abort: critical stage, or no continueOnError
Aborting(f) == f.stage \in pipeline.criticalStages \/ ~pipeline.continueOnError

\* C5: within one run the transformations are invoked in strictly increasing
\* list index, each stage at most once, and at most one of them is in flight
\* at any time: a stage is started only when every earlier one has settled.
C5_SequentialInOrder ==
    \A r \in RunIds :
        LET run == runs[r]
            inv == run.invoked
        IN  /\ \A i, j \in 1..Len(inv) : i < j => inv[i].index < inv[j].index
            /\ \A i \in 1..Len(inv) :
                    /\ inv[i].index \in 1..Len(pStages)
                    /\ pStages[inv[i].index].stageName = inv[i].stage
            /\ Len(inv) - run.settled \in {0, 1}
            /\ (Len(inv) - run.settled = 1) <=> (run.pc = "inflight")

C5_Witness ==
    \E r \in RunIds :
        /\ runs[r].pc = "done"
        /\ Len(runs[r].invoked) = 3
        /\ Len(runs[r].failed) = 1
        /\ runs[r].failed[1].index = 2

DataBefore(run, i) ==
    LET ok == Succeeded([run EXCEPT !.settled = i - 1])
    IN  IF Len(ok) = 0 THEN run.message
        ELSE ExecuteStage(pStages[ok[Len(ok)].index], ok[Len(ok)].input)

\* C7 (as claimed): when a stage outside the critical set fails while
\* continueOnError is true, the failed stage gets no entry in stageResults,
\* the next stage is invoked with the most recent successful stage's data
\* (the input record if none), and the final result has success = false and
\* output equal to the data of the last stage that succeeded. For A, B, C
\* with B failing, C runs on A's data and the output is C's data.
C7_ContinueOnNonCriticalFailure ==
    \A r \in RunIds :
        LET run == runs[r]
        IN  /\ \A k \in 1..Len(run.failed) :
                  LET f == run.failed[k]
                  IN  ~Aborting(f) =>
                        /\ ~MapHas(run.stageResults, f.stage)
                        /\ \A i \in 1..Len(run.invoked) :
                              run.invoked[i].input = DataBefore(run, i)
                        /\ run.pc = "done" =>
                              /\ run.success = FALSE
                              /\ run.output = LastSuccessfulData(run)
            /\ ( /\ run.pc = "done"
                 /\ StageNameSeq(pStages) = <<"A", "B", "C">>
                 /\ pipeline.continueOnError
                 /\ Len(run.failed) = 1
                 /\ run.failed[1].stage = "B"
                 /\ "B" \notin pipeline.criticalStages )
                => /\ Len(run.invoked) > 0
                   /\ run.invoked[Len(run.invoked)]
                         = [index |-> 3, stage |-> "C", input |-> <<"msg", "A">>]
                   /\ run.output = <<"msg", "A", "C">>

\* C8 (as claimed): execute never throws for a stage-level failure; every run
\* ends by returning a result, and every run in which a stage failed returns
\* success = false together with a non-empty failure list.
C8_FailedRunReportedAsData ==
    \A r \in RunIds :
        runs[r].pc = "done" =>
            /\ runs[r].outcome = "returned"
            /\ Len(runs[r].failed) > 0 =>
                  (runs[r].success = FALSE /\ Len(runs[r].errors) > 0)

\* C9 (as claimed): every stage failure of a run, a failed transformation or
\* a missing dependency, is in the context's failure list as an entry for
\* that stage before the orchestrator decides to continue or abort.
C9_EveryFailureRecorded ==
    \A r \in RunIds :
        \A k \in 1..Len(runs[r].failed) :
            \E j \in 1..Len(runs[r].errors) :
                runs[r].errors[j].stage = runs[r].failed[k].stage

(***************************************************************************)
(* Persona ordering properties                                             *)
(***************************************************************************)
\* the validatePersonaOrdering(personaStage, promptStage) calls that returned
OrderingPassed(personaStage, promptStage) ==
    /\ call.op = "validatePersonaOrdering"
    /\ call.args = <<personaStage, promptStage>>
    /\ call.error = NoError

\* Stage.execute of stage n was called and had finished (its transformation
\* returned or threw, or its dependency validation threw) when entry i of
\* the run's invocation log was made
AttemptedBefore(run, n, i) ==
    \/ \E k \in 1..(i - 1) : run.invoked[k].stage = n /\ k <= run.settled
    \/ \E k \in 1..Len(run.failed) :
            /\ run.failed[k].stage = n
            /\ run.failed[k].reason = "dependency"
            /\ run.failed[k].index < run.invoked[i].index

\* C11: for a pipeline on which validatePersonaOrdering(P, Q) returned
\* without error, the assertion keeps holding whatever is done afterwards, and
\* in every run stage Q's transformation is never invoked before stage P's
\* Stage.execute has been attempted and has finished (succeeded or failed).
C11_PersonaBeforePrompt ==
    /\ [](\A P \in OrderingNames, Q \in OrderingNames :
            /\ OrderingPassed(P, Q) => validatePersonaOrdering(P, Q) = NoError
            /\ validatePersonaOrdering(P, Q) = NoError =>
                  \A r \in RunIds : \A i \in 1..Len(runs[r].invoked) :
                      runs[r].invoked[i].stage = Q => AttemptedBefore(runs[r], P, i))
    /\ [][\A P \in OrderingNames, Q \in OrderingNames :
            (pipeline.built /\ validatePersonaOrdering(P, Q) = NoError)
                => (validatePersonaOrdering(P, Q) = NoError)']_vars

C11_Witness ==
    \E P \in OrderingNames, Q \in OrderingNames, r \in RunIds :
        /\ OrderingPassed(P, Q)
        /\ \E i \in 1..Len(runs[r].invoked) : runs[r].invoked[i].stage = Q
        /\ \E k \in 1..Len(runs[r].failed) :
              runs[r].failed[k].stage = P /\ runs[r].failed[k].reason = "dependency"

\* C12 (as claimed): in every run of a pipeline that passed
\* validatePersonaOrdering(P, Q), stage Q's transformation is invoked only if
\* stage P's result is in the run's stageResults; a run in which P did not
\* complete never invokes Q.
C12_PersonaNeverBypassed ==
    \A P \in OrderingNames, Q \in OrderingNames :
        OrderingPassed(P, Q) =>
            \A r \in RunIds : \A i \in 1..Len(runs[r].invoked) :
                runs[r].invoked[i].stage = Q => MapHas(runs[r].stageResults, P)

(***************************************************************************)
(* Concurrent runs                                                         *)
(***************************************************************************)
\* what execute returns when the call is the only one made: the loop of
\* Pipeline.execute from stage i on, for the stages whose transformation
\* throws (threw: their list indices), as one computation
RECURSIVE RunAlone(_, _, _)
RunAlone(ctx, i, threw) ==
    IF i > Len(pStages)
        THEN [output |-> ctx.previousOutput, stageResults |-> ctx.stageResults,
              errors |-> ctx.errors, success |-> (Len(ctx.errors) = 0)]
    ELSE
        LET stage == pStages[i]
            abort == stage.stageName \in pipeline.criticalStages
                        \/ ~pipeline.continueOnError
            rejected == DependencyMissing(stage, ctx.stageResults)
            after == IF rejected THEN ctx
                     ELSE [ctx EXCEPT !.errors = Append(@, [stage |-> stage.stageName,
                                                            error |-> StageError(stage)])]
            data == ExecuteStage(stage, ctx.previousOutput)
        IN  IF rejected \/ i \in threw
                THEN IF abort
                        THEN [output |-> after.previousOutput,
                              stageResults |-> after.stageResults,
                              errors |-> after.errors, success |-> FALSE]
                        ELSE RunAlone(after, i + 1, threw)
                ELSE RunAlone([ctx EXCEPT
                                  !.stageResults = Append(@, [stageName |-> stage.stageName,
                                                              data |-> data]),
                                  !.previousOutput = data],
                              i + 1, threw)

\* the list indices of the stages whose transformation threw in the run
ThrewIn(run) ==
    {run.failed[k].index : k \in {j \in 1..Len(run.failed) : run.failed[j].reason = "threw"}}

\* C13: for two execute calls on one pipeline, one after the other or
\* interleaved at the stages' suspension points, every stageResults entry
\* and every failure-list entry of a call was produced by that call from
\* that call's message, and the result a call returns is the result it
\* returns when it is the only call made.
C13_RunsIndependent ==
    \A r \in RunIds :
        LET run == runs[r]
            alone == RunAlone([stageResults |-> <<>>, errors |-> <<>>,
                               previousOutput |-> run.message], 1, ThrewIn(run))
        IN  /\ \A e \in 1..Len(run.stageResults) :
                  \E i \in 1..run.settled :
                      /\ run.invoked[i].stage = run.stageResults[e].stageName
                      /\ run.stageResults[e].data
                            = ExecuteStage(pStages[run.invoked[i].index], run.invoked[i].input)
                      /\ SubSeq(run.stageResults[e].data, 1, Len(run.message)) = run.message
            /\ \A e \in 1..Len(run.errors) :
                  \E k \in 1..Len(run.failed) :
                      /\ run.failed[k].stage = run.errors[e].stage
                      /\ run.failed[k].reason = "threw"
            /\ Len(run.errors) = Cardinality(ThrewIn(run))
            /\ run.pc = "done" =>
                  /\ run.output = alone.output
                  /\ run.stageResults = alone.stageResults
                  /\ run.errors = alone.errors
                  /\ run.success = alone.success

C13_Witness ==
    /\ runs["r1"].pc = "done"
    /\ runs["r1"].success
    /\ Len(runs["r1"].stageResults) = 2
    /\ runs["r2"].pc = "inflight"
    /\ runs["r2"].idx = 2
    /\ Len(runs["r2"].errors) = 1
    /\ runs["r2"].invoked[2].index = 2

(***************************************************************************)
(* Builder properties                                                      *)
(***************************************************************************)
\* C14 (as claimed): once build has returned a pipeline, no later call on the
\* builder changes the pipeline's stage list, critical set or configuration,
\* and the pipeline's stage list keeps distinct names and backward-only
\* dependencies in every state after construction.
C14_BuiltPipelineImmutable ==
    /\ [][pipeline.built => (pStages' = pStages /\ pipeline' = pipeline)]_vars
    /\ [](pipeline.built => ValidStageList(pStages))

\* C17: build throws MissingLogger whenever no logger has been set, whatever
\* stages were added and before the stage list is validated; with a logger
\* set, whatever validatePipeline throws is what build throws; and a pipeline
\* built without continueOnError ever being configured has continueOnError =
\* false: the first stage failure of a run is the last thing the run does.
C17_BuildRequiresLogger ==
    /\ call.op = "build" =>
          /\ ~bConfig.logger => (call.error = Err("MissingLogger", "", "") /\ ~pipeline.built)
          /\ bConfig.logger =>
                /\ call.error = validatePipeline(addCalls)
                /\ pipeline.built <=> (call.error = NoError)
    /\ (pipeline.built /\ bConfig.continueOnError = "unset") =>
          /\ ~pipeline.continueOnError
          /\ \A r \in RunIds :
                LET run == runs[r]
                IN  Len(run.failed) > 0 =>
                      /\ Len(run.failed) = 1
                      /\ run.pc \in {"rejected", "done"}
                      /\ run.idx = run.failed[1].index
                      /\ \A i \in 1..Len(run.invoked) :
                            run.invoked[i].index <= run.failed[1].index
                      /\ run.pc = "done" => ~run.success

C17_Witness ==
    /\ call.op = "build"
    /\ ~bConfig.logger
    /\ Len(addCalls) = 2
    /\ validatePipeline(addCalls).kind = "DependencyOrderViolation"
    /\ call.error.kind = "MissingLogger"

(***************************************************************************)
(* The stageResults mapping                                                *)
(***************************************************************************)
IsPrefix(s, t) == Len(s) <= Len(t) /\ SubSeq(t, 1, Len(s)) = s

\* C15 (as claimed): within one run stageResults is append-only, an entry
\* once written is never overwritten or removed during that run, and the
\* entries are in the order in which the stages executed.
C15_StageResultsAppendOnly ==
    /\ [][\A r \in RunIds :
            runs[r].pc \in {"inflight", "rejected"}
                => IsPrefix(runs[r].stageResults, runs'[r].stageResults)]_vars
    /\ [](\A r \in RunIds :
            MapKeys(runs[r].stageResults)
                = [i \in 1..Len(Succeeded(runs[r])) |-> Succeeded(runs[r])[i].stage])

(***************************************************************************)
(* Dependency validation at run time                                       *)
(***************************************************************************)
\* C16: a stage's transformation is invoked only when every dependency the
\* stage declares has a result in the context's stageResults; when one is
\* missing, Stage.execute throws MissingDependency naming the stage, the
\* missing dependency and the stages completed so far, and the
\* transformation is not invoked.
C16_DependenciesBeforeTransformation ==
    \A r \in RunIds :
        LET run == runs[r]
        IN  /\ \A i \in 1..Len(run.invoked) :
                  LET stage == pStages[run.invoked[i].index]
                  IN  \A k \in 1..Len(stage.dependencies) :
                          MapHas(run.stageResults, stage.dependencies[k])
            /\ \A k \in 1..Len(run.failed) :
                  run.failed[k].reason = "dependency" =>
                      \A i \in 1..Len(run.invoked) :
                          run.invoked[i].index # run.failed[k].index
            /\ run.pc = "rejected" =>
                  LET stage == pStages[run.idx]
                  IN  /\ run.thrown.kind = "MissingDependency"
                      /\ run.thrown.stage = stage.stageName
                      /\ \E k \in 1..Len(stage.dependencies) :
                            /\ run.thrown.dep = stage.dependencies[k]
                            /\ ~MapHas(run.stageResults, run.thrown.dep)
                      /\ run.thrown.completed = MapKeys(run.stageResults)
                      /\ run.failed[Len(run.failed)]
                            = [index |-> run.idx, stage |-> stage.stageName,
                               reason |-> "dependency"]
            /\ run.pc # "rejected" => run.thrown = NoError

C16_Witness ==
    \E r \in RunIds :
        /\ runs[r].pc = "rejected"
        /\ runs[r].idx = 3
        /\ runs[r].thrown.dep = "B"
        /\ runs[r].thrown.completed = <<"A">>
        /\ Len(runs[r].invoked) = 2

(***************************************************************************)
(* Persona selection properties                                            *)
(***************************************************************************)
\* C18: isOwner(identity) is true if and only if identity.id is exactly the
\* owner id: false for the empty id, for the owner id cut short, extended or
\* changed in one character; and two identities with the same id get the
\* same answer whatever their username, displayName and isBot.
C18_OwnerByExactId ==
    call.op = "isOwner" =>
        /\ call.ret <=> (call.args[1].id = OWNER_ID)
        /\ \A other \in Identities :
              other.id = call.args[1].id => (isOwner(other) <=> call.ret)

C18_Witness ==
    /\ call.op = "isOwner"
    /\ call.args[1].id = "6185121746204753940"
    /\ call.args[1].username = OWNER_NAME
    /\ call.args[1].displayName = OWNER_NAME
    /\ call.ret = FALSE

\* C19: for every message on which selectPersona succeeds, the selection
\* has persona BUTLER if and only if the author's id is the owner id and
\* SUPERVISOR otherwise, isOwner = (persona = BUTLER), and the call has
\* appended exactly one entry, the audit entry of that selection, to the log
\* when it returns.
C19_PersonaByOwnership ==
    /\ [](call.op = "selectPersona" /\ call.error = NoError =>
            LET message == call.args[1]
                selection == call.ret
            IN  /\ selection.persona \in {BUTLER, SUPERVISOR}
                /\ (selection.persona = BUTLER) <=> (message.author.id = OWNER_ID)
                /\ selection.isOwner <=> (selection.persona = BUTLER)
                /\ selection.userId = message.author.id)
    /\ [][call'.op = "selectPersona" /\ call'.error = NoError =>
            /\ Len(auditLog') = Len(auditLog) + 1
            /\ SubSeq(auditLog', 1, Len(auditLog)) = auditLog
            /\ auditLog'[Len(auditLog')].text = "Persona selected"
            /\ auditLog'[Len(auditLog')].meta = call'.ret]_vars

C19_Witness ==
    /\ call.op = "selectPersona"
    /\ call.error = NoError
    /\ call.args[1].author.id = "618512174620475395"
    /\ call.args[1].author.username = OWNER_NAME
    /\ call.ret.persona = SUPERVISOR
    /\ Len(auditLog) = 1

C21_GetPersonaTypeValidates ==
    call.op = "getPersonaType" =>
        LET message == call.args[1]
        IN  /\ (call.error = NoError) <=> (selectPersona(message).error = NoError)
            /\ call.error = NoError => call.ret = selectPersona(message).ret.persona

(***************************************************************************)
(* Prompt validation properties                                            *)
(***************************************************************************)
\* C23: PromptValidator.validate is stateless: the outcome of a call is the
\* outcome of validating its text with no call before it, whatever calls
\* came before, and a text that contains a placeholder ${...} or {{...}}
\* is rejected.
C23_ValidateStateless ==
    call.op = "validate" =>
        LET promptText == call.args[1]
        IN  /\ call.error = validate(promptText, [k \in 1..2 |-> 0]).error
            /\ (/\ promptText.type = "string"
                /\ \E k \in 1..2 : ContainsPattern(k, promptText.text))
               => call.error # NoError

(***************************************************************************)
(* Prompt loading properties                                               *)
(***************************************************************************)
\* a text that passes every check of validatePrompt when validated on its
\* own
ValidPromptText(text) ==
    validatePrompt(text, [k \in 1..2 |-> 0]).error = NoError

\* the step is a call of load(promptType)
LoadStep(promptType) ==
    /\ loader.constructed
    /\ disk' = disk
    /\ call'.op = "load"
    /\ call'.args = <<promptType>>

\* Cached mode: load(t) puts the text it returns in the cache, only load(t)
\* and clearCache change the cache entry of t, a load(t) with t in the cache
\* returns the cached text and reads no file, and a load(t) with t not in
\* the cache reads the file of t.
C22_CachedModeStep ==
    \A promptType \in LoaderTypes :
        (loader.constructed /\ ~loader.enableHotReload) =>
            /\ LoadStep(promptType) /\ loader.cache[promptType].defined
               => /\ call'.error = NoError
                  /\ call'.ret = loader.cache[promptType].text
                  /\ lastReads' = <<>>
                  /\ loader' = loader
            /\ LoadStep(promptType) /\ ~loader.cache[promptType].defined
               => /\ lastReads' = <<promptType>>
                  /\ call'.error = NoError
                     => loader'.cache[promptType] = Cached(call'.ret)
                  /\ call'.error # NoError => loader' = loader
            /\ loader'.cache[promptType] # loader.cache[promptType]
               => \/ LoadStep(promptType) /\ call'.error = NoError
                  \/ call'.op = "clearCache" /\ ~loader'.cache[promptType].defined

\* Reload-every-call mode: every load(t) reads the file of t and returns
\* only a text that passes validation.
C22_HotReloadStep ==
    \A promptType \in LoaderTypes :
        (loader.constructed /\ loader.enableHotReload /\ LoadStep(promptType)) =>
            /\ lastReads' = <<promptType>>
            /\ call'.error = NoError
               => call'.ret = disk[promptType].content /\ ValidPromptText(call'.ret)

\* Reload-every-call mode: the cache is empty.
C22_HotReloadCacheEmpty ==
    loader.enableHotReload => \A t \in PromptTypes : ~loader.cache[t].defined

\* C22: PromptLoader has two modes.  With hot reload off, after a successful
\* load(t) every later load(t) returns the same text without reading the
\* disk, whatever happened to the file, until clearCache, after which the
\* next load(t) reads the disk again.  With hot reload on, every load(t)
\* reads the disk and validates the text, and the cache stays empty.
C22_LoaderModes ==
    /\ []C22_HotReloadCacheEmpty
    /\ [][C22_CachedModeStep /\ C22_HotReloadStep]_vars

(***************************************************************************)
(* Prompt assembly properties                                              *)
(***************************************************************************)
\* the step is a call of build
BuildStep == loader.constructed /\ disk' = disk /\ call'.op = "buildPrompt"

\* the text a load of the prompt file gives before the step: the cached
\* text if there is one and hot reload is off, the file's content otherwise
LoadableText(promptType) ==
    IF ~loader.enableHotReload /\ loader.cache[promptType].defined
    THEN loader.cache[promptType].text
    ELSE disk[promptType].content

\* a load of the prompt file fails before the step: hot reload is on or
\* nothing is cached, and the file is not there
CannotLoad(promptType) ==
    /\ loader.enableHotReload \/ ~loader.cache[promptType].defined
    /\ ~disk[promptType].exists

\* the text starts with the prefix
StartsWith(text, prefix) ==
    Len(prefix) <= Len(text) /\ SubSeq(text, 1, Len(prefix)) = prefix

\* a text with nothing in it but whitespace
Blank(text) == \A i \in 1..Len(text) : CharAt(text, i) \in {" ", "\n", "\t"}

\* C24: every prompt build returns has exactly two messages, a system
\* message followed by a user message; the system content is the persona
\* system prompt, then the developer prompt, then the context block if one
\* is present and not empty; the user content is input.userMessage
\* unchanged.
C24_TwoMessagesInOrder ==
    [][BuildStep /\ call'.error = NoError =>
          LET input == call'.args[1]
              messages == call'.ret.messages
              persona == input.personaSelection.persona
              systemPrompt ==
                  LoadableText(IF persona = BUTLER THEN BUTLER_SYSTEM
                               ELSE SUPERVISOR_SYSTEM)
              contextBlock == formatContextBlock(input.context)
          IN  /\ Len(messages) = 2
              /\ messages[1].role = "system"
              /\ messages[2].role = "user"
              /\ messages[2].content = input.userMessage
              /\ messages[1].content =
                     systemPrompt \o "\n\n" \o LoadableText(DEVELOPER)
                     \o (IF input.context.present /\ ~Blank(contextBlock)
                         THEN "\n\n\n--- Context ---\n" \o contextBlock
                         ELSE "")]_vars

\* a build has returned a prompt whose system message ends with a context
\* block, for a user message with whitespace around it
C24_Witness ==
    /\ call.op = "buildPrompt"
    /\ call.error = NoError
    /\ call.args[1].context.present
    /\ formatContextBlock(call.args[1].context) # ""
    /\ call.args[1].userMessage # trim(call.args[1].userMessage)
    /\ Len(call.ret.messages) = 2

\* C25: build has no silent fallback.  It fails and returns no prompt when
\* the persona selection is missing, when its persona is not a known
\* persona type, when the user message is empty or whitespace, and when the
\* system or the developer prompt cannot be loaded; and when it succeeds the
\* system prompt it loaded is the Butler prompt if the persona is BUTLER and
\* the Supervisor prompt otherwise.
C25_NoSilentFallback ==
    [][BuildStep =>
          LET input == call'.args[1]
              selection == input.personaSelection
              systemType == IF selection.persona = BUTLER THEN BUTLER_SYSTEM
                            ELSE SUPERVISOR_SYSTEM
              otherType == IF selection.persona = BUTLER THEN SUPERVISOR_SYSTEM
                           ELSE BUTLER_SYSTEM
          IN  /\ (\/ selection = NoSelection
                  \/ selection.persona \notin {BUTLER, SUPERVISOR}
                  \/ Blank(input.userMessage)
                  \/ CannotLoad(systemType)
                  \/ CannotLoad(DEVELOPER))
                 => call'.error # NoError /\ call'.ret = NoPrompt
              /\ call'.error = NoError
                 => /\ LoadableText(systemType) # ""
                    /\ StartsWith(call'.ret.messages[1].content,
                                  LoadableText(systemType))
                    /\ \A i \in 1..Len(lastReads') : lastReads'[i] # otherType
                    /\ call'.ret.metadata.persona = selection.persona]_vars

\* a build with a known persona and a user message has failed because the
\* developer prompt could not be loaded
C25_Witness ==
    /\ call.op = "buildPrompt"
    /\ call.args[1].personaSelection.persona = BUTLER
    /\ ~Blank(call.args[1].userMessage)
    /\ call.error.kind = "FailedToLoadDeveloperPrompt"
    /\ call.ret = NoPrompt

(***************************************************************************)
(* Message handling properties                                             *)
(***************************************************************************)
\* the positions of the trace that hold an entry of the message satisfying
\* the test
LoggedAt(messageId, level, text) ==
    {i \in 1..Len(trace) : trace[i] = LogEntry(level, text, messageId)}

\* the positions of the trace that hold a call of message.reply
RepliesAt(messageId) ==
    {i \in 1..Len(trace) : trace[i].kind = "reply" /\ trace[i].messageId = messageId}

\* handleMessage has been called on the message
Handled(messageId) == handling[messageId].promise # "none"

\* C26: handleMessage never throws or rejects.  When persona selection
\* fails, and when the fallback reply fails to send, the failure is logged
\* and the promise handleMessage returned resolves; that promise is pending
\* only while the reply is.
C26_HandleMessageNeverRejects ==
    \A id \in MessageIds :
        LET h == handling[id]
        IN  /\ h.promise # "rejected"
            /\ h.promise = "pending" <=> h.reply = "pending"
            /\ (/\ Handled(id)
                /\ ~h.message.author.bot
                /\ selectPersona(h.message).error # NoError)
               => /\ h.promise = "resolved"
                  /\ LoggedAt(id, "error", "Persona selection failed") # {}
            /\ h.reply = "failed"
               => /\ h.promise = "resolved"
                  /\ LoggedAt(id, "error", "Failed to send fallback message") # {}

\* persona selection has failed for one message and the fallback reply has
\* failed to send for the other
C26_Witness ==
    \E id, other \in MessageIds :
        /\ Handled(id)
        /\ ~handling[id].message.author.bot
        /\ selectPersona(handling[id].message).error # NoError
        /\ handling[other].reply = "failed"

\* C27: for every message that is not from a bot, persona selection runs
\* and is audit-logged before the availability guard is read and before
\* any reply.  When the OpenAI key was absent at the handler's
\* construction, exactly one fallback reply is sent if persona selection
\* succeeded, none if it failed; and the handler never calls the AI
\* service.
C27_PersonaBeforeGuardAndReply ==
    /\ \A j \in 1..Len(trace) :
          /\ trace[j].kind \in {"log", "guard", "reply"}
          /\ trace[j].kind \in {"guard", "reply"}
             => \E i \in 1..(j - 1) :
                   /\ trace[i].kind = "log"
                   /\ trace[i].text = "Persona selected"
                   /\ trace[i].messageId = trace[j].messageId
    /\ \A id \in MessageIds :
          LET message == handling[id].message
          IN  (Handled(id) /\ ~message.author.bot) =>
                  /\ \E i \in 1..Len(auditLog) : auditLog[i].meta.messageId = id
                  /\ ~handler.isOpenAIAvailable =>
                        /\ \A i \in RepliesAt(id) : trace[i].text = FALLBACK_MESSAGE
                        /\ Cardinality(RepliesAt(id)) =
                               IF selectPersona(message).error = NoError
                               THEN 1 ELSE 0

\* without an OpenAI key, the fallback reply was sent for a message whose
\* persona selection succeeded, and none for one whose selection failed
C27_Witness ==
    /\ handler.constructed
    /\ ~handler.isOpenAIAvailable
    /\ \E id, other \in MessageIds :
          /\ handling[id].reply = "sent"
          /\ Handled(other)
          /\ ~handling[other].message.author.bot
          /\ selectPersona(handling[other].message).error # NoError
          /\ RepliesAt(other) = {}

\* C28: a message whose author is a bot is ignored: no persona selection is
\* performed for it, no audit or error entry is logged for it, and no reply
\* is sent.
C28_BotMessageIgnored ==
    \A id \in MessageIds :
        (Handled(id) /\ handling[id].message.author.bot) =>
            /\ handling[id].promise = "resolved"
            /\ handling[id].reply = "none"
            /\ \A i \in 1..Len(trace) : trace[i].messageId # id
            /\ \A i \in 1..Len(auditLog) : auditLog[i].meta.messageId # id

\* a bot's message has been handled after a user's message was replied to
C28_Witness ==
    \E id, other \in MessageIds :
        /\ Handled(id)
        /\ handling[id].message.author.bot
        /\ handling[other].reply = "sent"

(***************************************************************************)
(* The run timeout                                                         *)
(***************************************************************************)
\* the call runs on a pipeline with a timeout and has gone past it
TimedOut(run) ==
    pipeline.timeoutMs # NoTimeout /\ run.elapsed > pipeline.timeoutMs

\* C29: when a per-run timeout is configured and the elapsed time of the
\* run exceeds it, the orchestrator treats this like a critical stage
\* failure: it initiates no further stage, and it returns success = false
\* with a Timeout entry in the errors.
C29_TimeoutAborts ==
    /\ [](\A r \in SoloRuns :
            (runs[r].pc = "done" /\ TimedOut(runs[r])) =>
                /\ ~runs[r].success
                /\ \E i \in 1..Len(runs[r].errors) :
                       runs[r].errors[i].error[1] = "Timeout")
    /\ [][\A r \in SoloRuns :
            (runs[r].pc \in {"inflight", "rejected"} /\ TimedOut(runs[r]))
                => Len(runs'[r].invoked) = Len(runs[r].invoked)]_vars

(***************************************************************************)
(* Startup properties                                                      *)
(***************************************************************************)
\* C30: when DISCORD_TOKEN is unset, empty or whitespace-only, main writes
\* the error and exits with code 1 before a Discord client is created, a
\* message handler constructed or registered, or a login attempted; login
\* is attempted only with a token that is not blank.
C30_StartupGuard ==
    /\ (/\ proc.pc # "notStarted"
        /\ ~proc.discordToken.set \/ Blank(proc.discordToken.value))
       => /\ proc.pc = "exited"
          /\ proc.exitCode = 1
          /\ proc.console = <<"DISCORD_TOKEN is not set. Bot cannot start.">>
          /\ ~proc.clientCreated
          /\ ~proc.handlerRegistered
          /\ ~handler.constructed
          /\ proc.loginToken = <<>>
    /\ \A i \in 1..Len(proc.loginToken) :
          /\ ~Blank(proc.loginToken[i])
          /\ proc.discordToken = Set(proc.loginToken[i])

\* the process has exited on a token made of whitespace only
C30_Witness ==
    /\ proc.pc = "exited"
    /\ proc.discordToken.set
    /\ Len(proc.discordToken.value) > 0
    /\ Blank(proc.discordToken.value)
    /\ proc.exitCode = 1

(***************************************************************************)
(* Stage.execute and the context                                           *)
(***************************************************************************)
\* the step of a call in which the transformation in flight threw
TransformationThrew(run, next) ==
    /\ run.pc = "inflight"
    /\ Len(next.failed) > Len(run.failed)
    /\ next.failed[Len(run.failed) + 1].reason = "threw"

\* the step of a call in which the transformation in flight returned
TransformationReturned(run, next) ==
    /\ run.pc = "inflight"
    /\ next.settled = run.settled + 1
    /\ ~TransformationThrew(run, next)

\* C31: on a transformation failure Stage.execute appends exactly one
\* {stage, error} entry to context.errors, with this stage's name and the
\* error the transformation threw, and then fails with a StageExecutionFailed
\* error whose cause is that error; on success it appends nothing.
C31_TransformationFailureRecorded ==
    [][\A r \in RunIds :
        LET run == runs[r]
            next == runs'[r]
            stage == pStages[run.idx]
        IN  /\ TransformationThrew(run, next) =>
                  /\ next.errors = Append(run.errors, [stage |-> stage.stageName,
                                                       error |-> StageError(stage)])
                  /\ next.caught = StageExecutionFailed(stage, StageError(stage))
                  /\ next.caught.cause = next.errors[Len(next.errors)].error
            /\ TransformationReturned(run, next) => next.errors = run.errors]_vars

C31_Witness ==
    \E r \in RunIds :
        /\ Len(runs[r].stageResults) = 1
        /\ Len(runs[r].errors) = 1
        /\ runs[r].errors[1].stage = "B"
        /\ runs[r].caught.kind = "StageExecutionFailed"
        /\ runs[r].caught.cause = runs[r].errors[1].error
        /\ runs[r].pc = "inflight"

\* C32: Stage.execute never writes context.stageResults, on success or on
\* failure: an entry is added only by the orchestrator, and only after the
\* stage's execute returned successfully; all Stage.execute changes in the
\* context is currentStage and, on failure, errors.
C32_StageResultsWrittenByOrchestrator ==
    /\ [](\A r \in RunIds :
            LET run == runs[r]
                stage == pStages[run.idx]
                failing == StageExecuteCatch(run, stage, StageError(stage))
            IN  run.pc = "inflight" =>
                    /\ failing.stageResults = run.stageResults
                    /\ failing.message = run.message
                    /\ failing.currentStage = run.currentStage
                    /\ StageExecuteReturn(stage, run.previousOutput).stageName
                          = stage.stageName)
    /\ [][\A r \in RunIds :
            LET run == runs[r]
                next == runs'[r]
                stage == pStages[run.idx]
            IN  run.pc \in {"inflight", "rejected"} =>
                  /\ next.message = run.message
                  /\ IF TransformationReturned(run, next)
                     THEN next.stageResults
                            = MapSet(run.stageResults, stage.stageName,
                                     StageExecuteReturn(
                                         stage, run.invoked[Len(run.invoked)].input))
                     ELSE next.stageResults = run.stageResults
                  /\ ~TransformationThrew(run, next) => next.errors = run.errors
                  /\ next.currentStage # run.currentStage =>
                        /\ Len(next.invoked) = Len(run.invoked) + 1
                        /\ next.currentStage = next.invoked[Len(next.invoked)].stage]_vars

C32_Witness ==
    \E r \in RunIds :
        /\ runs[r].pc = "done"
        /\ MapKeys(runs[r].stageResults) = <<"A", "C">>
        /\ Len(runs[r].errors) = 1
        /\ runs[r].errors[1].stage = "B"
        /\ runs[r].currentStage = "C"

(***************************************************************************)
(* The result of a run                                                     *)
(***************************************************************************)
\* every stage of the pipeline has an entry in the run's stageResults
AllStagesHaveResults(run, stages) ==
    \A i \in 1..Len(stages) : MapHas(run.stageResults, stages[i].stageName)

\* C33 (as claimed): execute returns success = true if and only if every
\* stage of the pipeline has a result in the returned stageResults, which
\* holds if and only if the returned failure list is empty; no run reports
\* success while some stage failed or was skipped.
C33_SuccessIffAllStagesCompleted ==
    [][\A r \in RunIds :
        LET run == runs'[r]
        IN  (runs[r].pc # "done" /\ run.pc = "done") =>
              /\ run.success <=> AllStagesHaveResults(run, pStages')
              /\ AllStagesHaveResults(run, pStages') <=> (Len(run.errors) = 0)
              /\ run.success => Len(run.failed) = 0]_vars

\* s can be obtained from t by leaving elements out
RECURSIVE IsSubsequence(_, _)
IsSubsequence(s, t) ==
    IF Len(s) = 0 THEN TRUE
    ELSE IF Len(t) = 0 THEN FALSE
    ELSE IF Head(s) = Head(t) THEN IsSubsequence(Tail(s), Tail(t))
    ELSE IsSubsequence(s, Tail(t))

\* the data of the entry inserted last, the input record for an empty mapping
LastInsertedData(run) ==
    IF Len(run.stageResults) = 0 THEN run.message
    ELSE run.stageResults[Len(run.stageResults)].data

\* C34 (as claimed): in every state of a run the keys of stageResults in
\* insertion order are a subsequence of the pipeline's stage names in list
\* order, no stage name is both a key of stageResults and the stage of a
\* failure entry, and the value passed to the next stage, and finally
\* returned as output, is the data of the entry inserted last, or the input
\* record when the mapping is empty.
C34_ResultsFollowStageOrder ==
    \A r \in RunIds :
        LET run == runs[r]
        IN  /\ IsSubsequence(MapKeys(run.stageResults), StageNameSeq(pStages))
            /\ \A j \in 1..Len(run.errors) :
                    ~MapHas(run.stageResults, run.errors[j].stage)
            /\ run.previousOutput = LastInsertedData(run)
            /\ run.pc = "inflight" =>
                    run.invoked[Len(run.invoked)].input = LastInsertedData(run)
            /\ run.pc = "done" => run.output = LastInsertedData(run)

(***************************************************************************)
(* Stages that depend on a failed stage                                    *)
(***************************************************************************)
\* stage i of the list declares the name as a dependency, directly or
\* through a chain of at most n declared dependencies
RECURSIVE DependsOnWithin(_, _, _, _)
DependsOnWithin(stages, i, name, n) ==
    /\ n > 0
    /\ \E k \in 1..Len(stages[i].dependencies) :
          \/ stages[i].dependencies[k] = name
          \/ \E j \in 1..Len(stages) :
                /\ stages[j].stageName = stages[i].dependencies[k]
                /\ DependsOnWithin(stages, j, name, n - 1)

DependsOn(stages, i, name) == DependsOnWithin(stages, i, name, Len(stages))

\* the transformation of the stage at list index j was invoked in the run
InvokedAt(run, j) == \E i \in 1..Len(run.invoked) : run.invoked[i].index = j

\* Stage.execute of the stage at list index j was rejected by
\* validateDependencies in the run
RejectedAt(run, j) ==
    \E k \in 1..Len(run.failed) :
        run.failed[k].index = j /\ run.failed[k].reason = "dependency"

\* the call returns in this step
Returns(r) == runs[r].pc # "done" /\ runs'[r].pc = "done"

CachedTypes(ld) == {t \in PromptTypes : ld.cache[t].defined}

\* C36 (as claimed): in every reachable state of a PromptLoader, under any
\* sequence of load, preloadAll and clearCache calls, the cached prompt types
\* are the validated prompt types, and every cached text is non-blank, has a
\* trimmed length of at least 10 and a length of at most 10000, and holds no
\* ${...} or {{...}} placeholder; a load that fails leaves the cache
\* unchanged.
C36_CacheHoldsValidatedTexts ==
    /\ [](/\ CachedTypes(loader) = loader.validated
          /\ \A t \in CachedTypes(loader) :
                LET text == loader.cache[t].text
                IN  /\ Len(trim(text)) > 0
                    /\ Len(trim(text)) >= MIN_PROMPT_LENGTH
                    /\ Len(text) <= MAX_PROMPT_LENGTH
                    /\ \A k \in 1..2 : ~ContainsPattern(k, text))
    /\ [][(disk' = disk /\ call'.op = "load" /\ call'.error # NoError)
            => loader'.cache = loader.cache]_vars

\* the step is a call of preloadAll
PreloadStep ==
    /\ loader.constructed
    /\ disk' = disk
    /\ call'.op = "preloadAll"

\* the prompt types the error of a preloadAll call names, in order
FailedTypes(error) ==
    IF error = NoError THEN <<>>
    ELSE [i \in 1..Len(error.failed) |-> error.failed[i].type]

\* the elements of a sequence
Range(seq) == {seq[i] : i \in 1..Len(seq)}

\* C37: preloadAll attempts to load every known prompt type even after one
\* of them fails, throws if and only if at least one load failed, its error
\* naming each failed prompt, and in cached mode leaves every prompt that
\* did load in the cache even when it throws.
C37_PreloadAllLoadsEveryType ==
    [][PreloadStep =>
        LET failed == FailedTypes(call'.error)
            attempted == SelectSeq(PromptTypeSeq,
                            LAMBDA t : loader.enableHotReload \/ ~loader.cache[t].defined)
        IN  /\ lastReads' = attempted
            /\ call'.error # NoError <=> Len(failed) > 0
            /\ call'.error # NoError => call'.error.kind = "PreloadFailed"
            /\ failed = SelectSeq(PromptTypeSeq, LAMBDA t : t \in Range(failed))
            /\ \A i \in 1..Len(failed) : call'.error.failed[i].error # NoError
            /\ \A t \in PromptTypes :
                  /\ (t \in Range(attempted) /\ ~disk[t].exists) =>
                        \E i \in 1..Len(failed) :
                            /\ failed[i] = t
                            /\ call'.error.failed[i].error.kind = "PromptFileNotFound"
                  /\ (disk[t].exists /\ ValidPromptText(disk[t].content)) =>
                        t \notin Range(failed)
            /\ ~loader.enableHotReload =>
                  \A t \in PromptTypes :
                      /\ t \in Range(failed) <=> ~loader'.cache[t].defined
                      /\ loader.cache[t].defined => loader'.cache[t] = loader.cache[t]
                      /\ (~loader.cache[t].defined /\ t \notin Range(failed)) =>
                            loader'.cache[t] = Cached(disk[t].content)]_vars

C37_Witness ==
    /\ call.op = "preloadAll"
    /\ ~loader.enableHotReload
    /\ FailedTypes(call.error) = <<SUPERVISOR_SYSTEM>>
    /\ lastReads = PromptTypeSeq
    /\ CachedTypes(loader) = {BUTLER_SYSTEM, DEVELOPER}

(***************************************************************************)
(* Built prompts                                                           *)
(***************************************************************************)
\* C38: every prompt returned by PromptBuilder.build passes
\* PromptBuilder.validate: it has at least two messages, the first with role
\* system, the last with role user, and none with empty content; hence
\* buildAndValidate fails only when build itself fails, with build's error,
\* and returns what build returns.
C38_BuiltPromptsPassValidate ==
    /\ [](call.op = "buildPrompt" /\ call.error = NoError =>
            /\ validateBuiltPrompt(call.ret) = NoError
            /\ Len(call.ret.messages) >= 2
            /\ call.ret.messages[1].role = "system"
            /\ call.ret.messages[Len(call.ret.messages)].role = "user"
            /\ \A i \in 1..Len(call.ret.messages) :
                  ~Blank(call.ret.messages[i].content))
    /\ [][(loader.constructed /\ disk' = disk /\ call'.op = "buildAndValidate") =>
            /\ call'.error = build(call'.args[1], loader, disk, reLastIndex).error
            /\ call'.ret = build(call'.args[1], loader, disk, reLastIndex).ret
            /\ call'.error # NoError => call'.ret = NoPrompt]_vars

C38_Witness ==
    /\ call.op = "buildAndValidate"
    /\ call.error = NoError
    /\ call.args[1].context.present
    /\ Len(call.ret.messages) = 2
    /\ call.ret.messages[2].content = " hi ${x}\n"

(***************************************************************************)
(* Reading the result of another stage                                     *)
(***************************************************************************)
\* the entries of a context stored under a name
EntriesOf(context, stageName) ==
    {i \in 1..Len(context.stageResults) :
        context.stageResults[i].stageName = stageName}

\* C39: getStageResult(context, name) fails with StageResultNotFound exactly
\* when context.stageResults has no entry for the named stage, otherwise it
\* returns the data of that entry, and it never modifies the context.
C39_GetStageResultReadsTheEntry ==
    [][(call'.op = "getStageResult" /\ call' # call) =>
        /\ call'.error # NoError <=>
                EntriesOf(runs[call'.args[1]], call'.args[2]) = {}
        /\ call'.error # NoError => call'.error.kind = "StageResultNotFound"
        /\ call'.error = NoError =>
                \A i \in EntriesOf(runs[call'.args[1]], call'.args[2]) :
                    call'.ret = runs[call'.args[1]].stageResults[i].data
        /\ runs' = runs]_vars

C39_Witness ==
    /\ call.op = "getStageResult"
    /\ call.error = NoError
    /\ Len(runs[call.args[1]].stageResults) >= 2
    /\ call.args[2] = runs[call.args[1]].stageResults[1].stageName
    /\ call.ret = runs[call.args[1]].stageResults[1].data

====
